---- MODULE Spec2Model ----
(***************************************************************************)
(* Model of the llm-gateway request plane: the provider router and its     *)
(* per-provider circuit breakers (internal/proxy router), the              *)
(* authenticating middleware with its cache and key store (internal/auth), *)
(* and the completion handlers' preamble (internal/proxy handler).         *)
(* Time is a discrete clock in seconds.                                    *)
(***************************************************************************)
EXTENDS Integers, Sequences, FiniteSets, Bags, TLC

VARIABLES
    now,        \* wall clock, seconds
    providers,  \* Router.providers: registration-ordered descriptors
    breakers,   \* Router.breakers: provider name -> circuit breaker
    inflight,   \* Router.Execute calls between beforeRequest and afterRequest
    lastRoute,  \* the latest Router.Route call: request model, pre-state, result
    execHist,   \* per provider name: what callers of Router.Execute observed
    apiKeys,    \* the api_keys table of the key store
    cache,      \* the shared cache: redis key -> entry
    mw,         \* the requests in the authenticating middleware
    hreq,       \* the requests in the handlers of internal/proxy
    usageLogs,  \* the usage records written by billing.LogUsage
    upstream,   \* a stream: the adapter and what its upstream will answer
    producer,   \* a stream: the goroutine of the adapter's CompleteStream
    forwarder,  \* a stream: the goroutine of Router.ExecuteStream
    wrappedCh,  \* a stream: the channel ExecuteStream returns
    consumer,   \* a stream: the event loop of HandleCompleteStream
    ctxDone,    \* a stream: the request context, and what was read at its end
    httpReq,    \* the requests served by the chain of cmd/gateway
    idsMade,    \* the identifiers generated so far, per generator
    streamCalls, \* the streams ExecuteStream has opened and not yet seen end
    procLog     \* the lines written to the process log: <<format, argument>>

routerVars == <<providers, breakers, inflight, lastRoute, execHist>>
authVars == <<apiKeys, cache, mw>>
handlerVars == <<hreq, usageLogs>>
streamVars == <<upstream, producer, forwarder, wrappedCh, consumer, ctxDone>>
httpVars == <<httpReq, idsMade>>
callVars == <<streamCalls>>
logVars == <<procLog>>
vars == <<now, routerVars, authVars, handlerVars, streamVars, httpVars, callVars, logVars>>

----------------------------------------------------------------------------
(* Bounds of the model *)

MaxProviders == 3
MaxTime == 40
MaxInflight == 1
MaxCount == 4
MaxAuthRequests == 2
MaxAuthTime == 300
MaxHandlerRequests == 2
MaxLines == 3
MaxDeltaLen == 3
MaxHttpRequests == 2
MaxStreams == 3

(* Program constants *)

BreakerMaxRequests == 3
BreakerInterval == 5
BreakerTimeout == 30
TripThreshold == 3
CacheTTL == 300
DefaultEstimatedTokens == 1000
AuthTickStep == CacheTTL \div 2

ZeroTime == 0 - 1

StateClosed == "closed"
StateHalfOpen == "half-open"
StateOpen == "open"

ErrOpenState == "circuit breaker is open"
ErrTooManyRequests == "too many requests"
ErrAllUnavailable == "all providers unavailable"
ErrUpstream == "upstream error"
NoErr == "nil"

Models == {"m1", "m2"}
ModelLists == {<<"m1">>, <<"m1", "m2">>}
Costs == {1, 2}
ProviderNames == <<"p1", "p2", "p3", "p4">>
NameOf(i) == ProviderNames[i]
TargetName == "p1"

Min(a, b) == IF a < b THEN a ELSE b

----------------------------------------------------------------------------
(* gobreaker.CircuitBreaker with the settings NewRouter gives it *)

ReadyToTripLate(cb) == cb.ConsecutiveFailures >= TripThreshold + 1

ReadyToTrip(cb) == cb.ConsecutiveFailures >= TripThreshold

ClearCounts(cb) ==
    [cb EXCEPT !.Requests = 0, !.ConsecutiveSuccesses = 0, !.ConsecutiveFailures = 0]

ToNewGeneration(cb, t) ==
    LET c == ClearCounts([cb EXCEPT !.generation = @ + 1])
    IN  CASE cb.state = StateClosed ->
                 [c EXCEPT !.expiry = IF BreakerInterval = 0 THEN ZeroTime
                                      ELSE t + BreakerInterval]
          [] cb.state = StateOpen -> [c EXCEPT !.expiry = t + BreakerTimeout]
          [] OTHER -> [c EXCEPT !.expiry = ZeroTime]

SetState(cb, s, t) ==
    IF cb.state = s THEN cb ELSE ToNewGeneration([cb EXCEPT !.state = s], t)

(* A breaker whose closed state has no interval *)
CurrentStateNoInterval(cb, t) ==
    CASE cb.state = StateOpen /\ cb.expiry < t -> SetState(cb, StateHalfOpen, t)
      [] OTHER -> cb

(* A breaker that leaves the open state as soon as its timeout is reached *)
CurrentStateEarly(cb, t) ==
    CASE cb.state = StateClosed /\ cb.expiry # ZeroTime /\ cb.expiry < t ->
             ToNewGeneration(cb, t)
      [] cb.state = StateOpen /\ cb.expiry <= t -> SetState(cb, StateHalfOpen, t)
      [] OTHER -> cb

CurrentState(cb, t) ==
    CASE cb.state = StateClosed /\ cb.expiry # ZeroTime /\ cb.expiry < t ->
             ToNewGeneration(cb, t)
      [] cb.state = StateOpen /\ cb.expiry < t -> SetState(cb, StateHalfOpen, t)
      [] OTHER -> cb

NewCircuitBreaker(t) ==
    ToNewGeneration([state |-> StateClosed, generation |-> 0, expiry |-> ZeroTime,
                     Requests |-> 0, ConsecutiveSuccesses |-> 0,
                     ConsecutiveFailures |-> 0], t)

(* A breaker that answers with the open error when its half-open budget is
   used *)
BeforeRequestOpenOnly(cb, t) ==
    LET c == CurrentState(cb, t)
    IN  IF c.state = StateOpen
           \/ (c.state = StateHalfOpen /\ c.Requests >= BreakerMaxRequests)
        THEN [cb |-> c, gen |-> c.generation, err |-> ErrOpenState]
        ELSE [cb |-> [c EXCEPT !.Requests = @ + 1], gen |-> c.generation,
              err |-> NoErr]

BeforeRequest(cb, t) ==
    LET c == CurrentState(cb, t)
    IN  IF c.state = StateOpen
        THEN [cb |-> c, gen |-> c.generation, err |-> ErrOpenState]
        ELSE IF c.state = StateHalfOpen /\ c.Requests >= BreakerMaxRequests
        THEN [cb |-> c, gen |-> c.generation, err |-> ErrTooManyRequests]
        ELSE [cb |-> [c EXCEPT !.Requests = @ + 1], gen |-> c.generation,
              err |-> NoErr]

OnSuccess(c, t) ==
    CASE c.state = StateClosed ->
             [c EXCEPT !.ConsecutiveSuccesses = @ + 1, !.ConsecutiveFailures = 0]
      [] c.state = StateHalfOpen ->
             LET d == [c EXCEPT !.ConsecutiveSuccesses = @ + 1,
                                !.ConsecutiveFailures = 0]
             IN  IF d.ConsecutiveSuccesses >= BreakerMaxRequests
                 THEN SetState(d, StateClosed, t) ELSE d
      [] OTHER -> c

OnFailure(c, t) ==
    CASE c.state = StateClosed ->
             LET d == [c EXCEPT !.ConsecutiveFailures = @ + 1,
                                !.ConsecutiveSuccesses = 0]
             IN  IF ReadyToTrip(d) THEN SetState(d, StateOpen, t) ELSE d
      [] c.state = StateHalfOpen -> SetState(c, StateOpen, t)
      [] OTHER -> c

AfterRequest(cb, before, success, t) ==
    LET c == CurrentState(cb, t)
    IN  IF c.generation # before THEN c
        ELSE IF success THEN OnSuccess(c, t) ELSE OnFailure(c, t)

----------------------------------------------------------------------------
(* Router *)

Supports(p, model) == \E k \in 1..Len(p.models) : p.models[k] = model

NewRouterBreakers(provs, t) ==
    [n \in {provs[i].name : i \in 1..Len(provs)} |-> NewCircuitBreaker(t)]

RECURSIVE RouteScanAnyState(_, _, _, _, _)
RouteScanAnyState(i, brs, cands, model, t) ==
    IF i > Len(providers) THEN [breakers |-> brs, candidates |-> cands]
    ELSE LET p == providers[i]
             cb == CurrentState(brs[p.name], t)
             brs2 == [brs EXCEPT ![p.name] = cb]
         IN  IF model # "" /\ ~Supports(p, model)
             THEN RouteScanAnyState(i + 1, brs2, cands, model, t)
             ELSE RouteScanAnyState(i + 1, brs2, Append(cands, i), model, t)

RECURSIVE RouteScan(_, _, _, _, _)
RouteScan(i, brs, cands, model, t) ==
    IF i > Len(providers) THEN [breakers |-> brs, candidates |-> cands]
    ELSE LET p == providers[i]
             cb == CurrentState(brs[p.name], t)
             brs2 == [brs EXCEPT ![p.name] = cb]
         IN  IF cb.state = StateOpen THEN RouteScan(i + 1, brs2, cands, model, t)
             ELSE IF model # ""
             THEN IF Supports(p, model)
                  THEN RouteScan(i + 1, brs2, Append(cands, i), model, t)
                  ELSE RouteScan(i + 1, brs2, cands, model, t)
             ELSE RouteScan(i + 1, brs2, Append(cands, i), model, t)

RECURSIVE PickBestLastTie(_, _, _)
PickBestLastTie(best, cands, k) ==
    IF k > Len(cands) THEN best
    ELSE PickBestLastTie(IF providers[cands[k]].cost <= providers[best].cost
                         THEN cands[k] ELSE best, cands, k + 1)

RECURSIVE PickBest(_, _, _)
PickBest(best, cands, k) ==
    IF k > Len(cands) THEN best
    ELSE PickBest(IF providers[cands[k]].cost < providers[best].cost
                  THEN cands[k] ELSE best, cands, k + 1)

RouteAlwaysByCost(brs, model, t) ==
    LET s == RouteScan(1, brs, <<>>, model, t)
    IN  IF Len(s.candidates) = 0
        THEN [p |-> 0, err |-> ErrAllUnavailable, breakers |-> s.breakers]
        ELSE [p |-> PickBest(s.candidates[1], s.candidates, 2), err |-> NoErr,
              breakers |-> s.breakers]

Route(brs, model, t) ==
    LET s == RouteScan(1, brs, <<>>, model, t)
    IN  IF Len(s.candidates) = 0
        THEN [p |-> 0, err |-> ErrAllUnavailable, breakers |-> s.breakers]
        ELSE IF model # ""
        THEN [p |-> s.candidates[1], err |-> NoErr, breakers |-> s.breakers]
        ELSE [p |-> PickBest(s.candidates[1], s.candidates, 2), err |-> NoErr,
              breakers |-> s.breakers]

NoRoute == [called |-> FALSE]

NoHist ==
    [raw |-> 0, rawAt |-> 0, cnt |-> 0, gen |-> 0, at |-> 0,
     sraw |-> 0, scnt |-> 0, sgen |-> 0, fwd |-> FALSE]

(* Router.Route(ctx, req) with req.Model = model *)
RouteCall(model) ==
    LET r == Route(breakers, model, now)
    IN  /\ breakers' = r.breakers
        /\ lastRoute' = [called |-> TRUE, model |-> model, at |-> now,
                         pre |-> breakers, p |-> r.p, err |-> r.err]
        /\ UNCHANGED <<now, providers, inflight, execHist, authVars, handlerVars, streamVars,
                       httpVars, callVars, logVars>>

(* What the callers of Router.Execute have seen of one provider: raw counts
   the latest consecutive calls that returned an error, cnt those of them the
   breaker counted in its generation gen (calls it rejected or whose
   generation had passed are not counted); rawAt and at are the times the
   third such call returned. *)
HistAfter(h, failed, counted, gen, t) ==
    IF ~failed
    THEN [h EXCEPT !.raw = 0, !.rawAt = 0,
                   !.cnt = IF counted THEN 0 ELSE @,
                   !.at = IF counted THEN 0 ELSE @,
                   !.sraw = 0, !.scnt = 0, !.fwd = FALSE]
    ELSE LET r == Min(h.raw + 1, MaxCount)
             c == IF ~counted THEN h.cnt
                  ELSE IF h.gen = gen THEN h.cnt + 1 ELSE 1
         IN  [raw |-> r,
              rawAt |-> IF r = TripThreshold THEN t
                        ELSE IF r < TripThreshold THEN 0 ELSE h.rawAt,
              cnt |-> c,
              gen |-> IF counted THEN gen ELSE h.gen,
              at |-> IF ~counted THEN h.at
                     ELSE IF c = TripThreshold THEN t ELSE 0,
              sraw |-> 0, scnt |-> 0, sgen |-> h.sgen, fwd |-> FALSE]

(* Router.Execute up to the call of p.Complete: cb.Execute's beforeRequest.
   A call the breaker rejects returns its error at once. *)
ExecuteBegin(i) ==
    LET n == providers[i].name
        b == BeforeRequest(breakers[n], now)
    IN  /\ breakers[n].Requests < MaxCount
        /\ b.err = NoErr => BagCardinality(inflight) < MaxInflight
        /\ breakers' = [breakers EXCEPT ![n] = b.cb]
        /\ IF b.err # NoErr
           THEN /\ execHist' = [execHist EXCEPT
                                   ![n] = HistAfter(@, TRUE, FALSE, b.gen, now)]
                /\ UNCHANGED inflight
           ELSE /\ inflight' = inflight (+) SetToBag({[p |-> i, before |-> b.gen]})
                /\ UNCHANGED execHist
        /\ lastRoute' = NoRoute
        /\ UNCHANGED <<now, providers, authVars, handlerVars, streamVars,
                       httpVars, callVars, logVars>>

(* A router with one set of counters: the result of a call is recorded on
   every breaker *)
ExecuteEndShared(c, success) ==
    LET n == providers[c.p].name
        cur == CurrentState(breakers[n], now)
        counted == cur.generation = c.before /\ cur.state # StateOpen
    IN  /\ BagIn(c, inflight)
        /\ inflight' = inflight (-) SetToBag({c})
        /\ breakers' = [m \in DOMAIN breakers |->
                           AfterRequest(breakers[m], breakers[m].generation,
                                        success, now)]
        /\ execHist' = [execHist EXCEPT
                           ![n] = HistAfter(@, ~success, counted, c.before, now)]
        /\ lastRoute' = NoRoute
        /\ UNCHANGED <<now, providers, authVars, handlerVars, streamVars,
                       httpVars, callVars, logVars>>

(* p.Complete returns (success or error), then cb.Execute's afterRequest *)
ExecuteEnd(c, success) ==
    LET n == providers[c.p].name
        cur == CurrentState(breakers[n], now)
        counted == cur.generation = c.before /\ cur.state # StateOpen
    IN  /\ BagIn(c, inflight)
        /\ inflight' = inflight (-) SetToBag({c})
        /\ breakers' = [breakers EXCEPT
                           ![n] = AfterRequest(@, c.before, success, now)]
        /\ execHist' = [execHist EXCEPT
                           ![n] = HistAfter(@, ~success, counted, c.before, now)]
        /\ lastRoute' = NoRoute
        /\ UNCHANGED <<now, providers, authVars, handlerVars, streamVars,
                       httpVars, callVars, logVars>>

(* The clock advances by one breaker interval. *)
Tick ==
    /\ now + BreakerInterval <= MaxTime
    /\ now' = now + BreakerInterval
    /\ lastRoute' = NoRoute
    /\ UNCHANGED <<providers, breakers, inflight, execHist, authVars, handlerVars, streamVars,
                       httpVars, callVars, logVars>>

----------------------------------------------------------------------------
(* Authenticating middleware, cache and key store *)

RedisNil == "redis: nil"
ErrRedis == "redis: connection error"
ErrKeyNotFound == "api key not found"
ErrStore == "failed to get api key"

BearerPrefix == "Bearer "

Secrets == {"s1", "s2"}

(* An Authorization header is a pair <<prefix, rest>>; the absent or empty
   header is <<"", "">>. *)
Headers ==
    {<<"", "">>, <<"Basic ", "s1">>} \cup {<<BearerPrefix, k>> : k \in Secrets}

HasPrefix(h, prefix) == h[1] = prefix

TrimPrefix(h, prefix) == IF h[1] = prefix THEN h[2] ELSE h[1]

(* hex(sha256(key)): distinct secrets have distinct digests, and no digest is
   a secret. *)
HashKey(key) == <<"sha256", key>>

RedisKeyShared(key) == <<"auth:", HashKey("")>>

RedisKey(key) == <<"auth:", HashKey(key)>>

NoKey == [id |-> "", tenant |-> "", keyHash |-> <<"sha256", "">>, active |-> FALSE]

(* APIKey.MarshalBinary: the JSON object, as its list of name/value pairs *)
MarshalBinary(a) ==
    <<<<"id", a.id>>, <<"tenant_id", a.tenant>>,
      <<"key_hash", a.keyHash>>, <<"active", a.active>>>>

JsonField(data, name) ==
    LET i == CHOOSE j \in 1..Len(data) : data[j][1] = name IN data[i][2]

(* APIKey.UnmarshalBinary *)
UnmarshalBinary(data) ==
    [id |-> JsonField(data, "id"), tenant |-> JsonField(data, "tenant_id"),
     keyHash |-> JsonField(data, "key_hash"), active |-> JsonField(data, "active")]

NoEntry == [present |-> FALSE, val |-> MarshalBinary(NoKey), exp |-> 0]

(* The entry under k exists and its time to live has not run out at time t. *)
Live(c, k, t) == c[k].present /\ t < c[k].exp

CacheGetIgnoringExpiry(c, k, t, down) ==
    IF down THEN [err |-> ErrRedis, val |-> NoKey]
    ELSE IF c[k].present THEN [err |-> NoErr, val |-> UnmarshalBinary(c[k].val)]
    ELSE [err |-> RedisNil, val |-> NoKey]

(* cache.Get(ctx, redisKey).Scan(&apiKey); down is a failure of the backend *)
CacheGet(c, k, t, down) ==
    IF down THEN [err |-> ErrRedis, val |-> NoKey]
    ELSE IF Live(c, k, t)
    THEN [err |-> NoErr, val |-> UnmarshalBinary(c[k].val)]
    ELSE [err |-> RedisNil, val |-> NoKey]

CacheSetShortTTL(c, k, v, t, down) ==
    IF down THEN c
    ELSE [c EXCEPT ![k] = [present |-> TRUE, val |-> MarshalBinary(v),
                           exp |-> t + AuthTickStep]]

(* cache.Set(ctx, redisKey, apiK, 5*time.Minute) *)
CacheSet(c, k, v, t, down) ==
    IF down THEN c
    ELSE [c EXCEPT ![k] = [present |-> TRUE, val |-> MarshalBinary(v),
                           exp |-> t + CacheTTL]]

(* PostgresStore.GetByKey *)
GetByKey(rows, key, down) ==
    LET keyHash == HashKey(key)
        found == {r \in rows : r.keyHash = keyHash /\ r.active = TRUE}
    IN  IF down THEN [err |-> ErrStore, val |-> NoKey]
        ELSE IF found = {} THEN [err |-> ErrKeyNotFound, val |-> NoKey]
        ELSE [err |-> NoErr, val |-> CHOOSE r \in found : TRUE]

(* PostgresStore.Revoke: UPDATE api_keys SET active = false WHERE id = keyID *)
RevokeRows(rows, keyID) ==
    {IF r.id = keyID THEN [r EXCEPT !.active = FALSE] ELSE r : r \in rows}

AuthIds == 1..MaxAuthRequests

NoMw ==
    [pc |-> "idle", hdr |-> <<"", "">>, at |-> 0, after |-> {},
     cacheErr |-> "none", storeErr |-> "none", apiK |-> NoKey,
     rowAtGet |-> NoKey, cachedAtGet |-> FALSE, rowAtLookup |-> NoKey,
     setOk |-> FALSE, status |-> 0, body |-> "", down |-> FALSE, tenant |-> ""]

(* The row of the table that an (active or revoked) secret belongs to. *)
RowOf(rows, key) ==
    IF \E r \in rows : r.keyHash = HashKey(key)
    THEN CHOOSE r \in rows : r.keyHash = HashKey(key) ELSE NoKey

Finished(r) == [r EXCEPT !.pc = "done"]

Reject(r, status, body) == Finished([r EXCEPT !.status = status, !.body = body])

(* next.ServeHTTP(w, r.WithContext(ctx)) with the tenant attached *)
Serve(r, k) == Finished([r EXCEPT !.down = TRUE, !.tenant = k.tenant])

(* Where the middleware goes after the cache lookup returned got. *)
AfterCacheGetFailClosed(r, got) ==
    IF got.err = NoErr THEN Serve(r, got.val)
    ELSE IF got.err # RedisNil
    THEN Reject(r, 500, "Internal Server Error")
    ELSE [r EXCEPT !.pc = "store"]

AfterCacheGet(r, got) ==
    IF got.err = NoErr THEN Serve(r, got.val)
    ELSE [r EXCEPT !.pc = "store"]

(* Where the middleware goes after store.GetByKey returned got. *)
AfterGetByKey(r, got) ==
    IF got.err # NoErr
    THEN IF got.err = ErrKeyNotFound
         THEN Reject(r, 401, "Unauthorized: invalid API key")
         ELSE Reject(r, 500, "Internal Server Error")
    ELSE [r EXCEPT !.pc = "set", !.apiK = got.val]

(* log.Printf("auth: redis error: %v", err): cache.Get failed with an error
   other than redis.Nil *)
RedisErrorLogged(hdr, cacheDown) ==
    /\ hdr[1] # "" /\ HasPrefix(hdr, BearerPrefix)
    /\ CacheGet(cache, RedisKey(TrimPrefix(hdr, BearerPrefix)), now, cacheDown).err
           \notin {NoErr, RedisNil}

(* The middleware from the arrival of a request to the return of cache.Get *)
MwBegin(id, hdr, cacheDown) ==
    LET r0 == [NoMw EXCEPT !.hdr = hdr, !.at = now,
                           !.after = {j \in AuthIds : mw[j].pc = "done"}]
    IN  /\ mw[id].pc = "idle"
        /\ \A j \in AuthIds : j < id => mw[j].pc # "idle"
        /\ IF hdr[1] = "" \/ ~HasPrefix(hdr, BearerPrefix)
           THEN /\ cacheDown = FALSE
                /\ mw' = [mw EXCEPT ![id] = Reject(r0, 401,
                             "Unauthorized: missing or invalid Authorization header")]
           ELSE LET key == TrimPrefix(hdr, BearerPrefix)
                    got == CacheGet(cache, RedisKey(key), now, cacheDown)
                    r1 == [r0 EXCEPT !.cacheErr = got.err,
                                     !.rowAtGet = RowOf(apiKeys, key),
                                     !.cachedAtGet = Live(cache, RedisKey(key), now)]
                IN  mw' = [mw EXCEPT ![id] = AfterCacheGet(r1, got)]
        /\ procLog' = IF RedisErrorLogged(hdr, cacheDown)
                       THEN procLog \cup {<<"auth: redis error: %v", ErrRedis>>}
                       ELSE procLog
        /\ UNCHANGED <<now, routerVars, apiKeys, cache, handlerVars, streamVars,
                       httpVars, callVars>>

(* store.GetByKey(ctx, key) and the handling of its error *)
MwLookup(id, storeDown) ==
    LET r == mw[id]
        key == TrimPrefix(r.hdr, BearerPrefix)
        got == GetByKey(apiKeys, key, storeDown)
        r1 == [r EXCEPT !.storeErr = got.err, !.rowAtLookup = RowOf(apiKeys, key)]
    IN  /\ r.pc = "store"
        /\ mw' = [mw EXCEPT ![id] = AfterGetByKey(r1, got)]
        /\ UNCHANGED <<now, routerVars, apiKeys, cache, handlerVars, streamVars,
                       httpVars, callVars, logVars>>

(* cache.Set of the record found, then the downstream handler *)
MwCacheSet(id, cacheDown) ==
    LET r == mw[id]
        key == TrimPrefix(r.hdr, BearerPrefix)
    IN  /\ r.pc = "set"
        /\ cache' = CacheSet(cache, RedisKey(key), r.apiK, now, cacheDown)
        /\ mw' = [mw EXCEPT ![id] = Serve([r EXCEPT !.setOk = ~cacheDown], r.apiK)]
        /\ UNCHANGED <<now, routerVars, apiKeys, handlerVars, streamVars,
                       httpVars, callVars, logVars>>

(* An administrator revokes a key: store.Revoke(ctx, keyID) *)
Revoke(keyID) ==
    /\ \E r \in apiKeys : r.id = keyID /\ r.active
    /\ apiKeys' = RevokeRows(apiKeys, keyID)
    /\ UNCHANGED <<now, routerVars, cache, mw, handlerVars, streamVars,
                       httpVars, callVars, logVars>>

SeederFormats ==
    {"[Seeder] API key may already exist, skipping: %v",
     "[Seeder] Test API key created successfully",
     "[Seeder] Key: %s", "[Seeder] TenantID: %s"}

(* The constants of the seeder *)
TestAPIKey == "test-api-key-12345"
TestTenantID == "00000000-0000-0000-0000-000000000001"

(* PostgresStore.Create: INSERT INTO api_keys; the table generates the id *)
Create(rows, apiKey, down) ==
    IF apiKey.keyHash = HashKey("") THEN [err |-> "key_hash is required", rows |-> rows]
    ELSE IF down \/ \E r \in rows : r.keyHash = apiKey.keyHash
    THEN [err |-> "failed to create api key", rows |-> rows]
    ELSE [err |-> NoErr, rows |-> rows \cup {[apiKey EXCEPT !.id = "k2"]}]

(* seeder.SeedTestAPIKey, which main calls once before it serves, when
   RUN_SEED is true *)
SeedTestAPIKey(storeDown) ==
    LET apiKey == [id |-> "", tenant |-> TestTenantID, keyHash |-> HashKey(TestAPIKey),
                   active |-> TRUE]
        out == Create(apiKeys, apiKey, storeDown)
    IN  /\ \A id \in AuthIds : mw[id].pc = "idle"
        /\ \A line \in procLog : line[1] \notin SeederFormats
        /\ apiKeys' = out.rows
        /\ procLog' = procLog \cup
               IF out.err # NoErr
               THEN {<<"[Seeder] API key may already exist, skipping: %v", out.err>>}
               ELSE {<<"[Seeder] Test API key created successfully", "">>,
                     <<"[Seeder] Key: %s", TestAPIKey>>,
                     <<"[Seeder] TenantID: %s", TestTenantID>>}
        /\ UNCHANGED <<now, routerVars, cache, mw, handlerVars, streamVars,
                       httpVars, callVars>>

AuthTick ==
    /\ now + AuthTickStep <= MaxAuthTime
    /\ now' = now + AuthTickStep
    /\ UNCHANGED <<routerVars, authVars, handlerVars, streamVars, httpVars, callVars, logVars>>

InitAuthState ==
    /\ apiKeys = {[id |-> "k1", tenant |-> "t1", keyHash |-> HashKey("s1"),
                   active |-> TRUE]}
    /\ cache = [k \in {RedisKey(x) : x \in Secrets \cup {TestAPIKey}}
                        \cup {RedisKeyShared("")} |-> NoEntry]
    /\ mw = [id \in AuthIds |-> NoMw]

----------------------------------------------------------------------------
(* Handlers of the completion and usage endpoints *)

ErrLimiter == "limiter store error"
ErrBilling == "billing store error"

Endpoints == {"complete", "stream"}

(* The values a request context carries, as key/value pairs. *)
Contexts == {{}, {<<"tenant_id", "">>}, {<<"tenant_id", "t1">>}}

(* The contexts of the requests of two tenants, and of one that carries no
   tenant *)
TenantContexts == {{}, {<<"tenant_id", "t1">>}, {<<"tenant_id", "t2">>}}

GetTenantIDOrAnonymous(ctx) ==
    IF \E kv \in ctx : kv[1] = "tenant_id"
    THEN (CHOOSE kv \in ctx : kv[1] = "tenant_id")[2] ELSE "anonymous"

(* auth.GetTenantID *)
GetTenantID(ctx) ==
    IF \E kv \in ctx : kv[1] = "tenant_id"
    THEN (CHOOSE kv \in ctx : kv[1] = "tenant_id")[2] ELSE ""

(* json.NewEncoder(w).Encode(map[string]string{"error": msg}) *)
JsonError(msg) == <<<<"error", msg>>>>

JsonRateLimited == <<<<"error", "rate limit exceeded">>, <<"retry_after", "60s">>>>

(* What the limiter store may answer to AllowN *)
AllowNResults == [Allowed : BOOLEAN, err : {NoErr, ErrLimiter}]

LimiterKey(tenantID) == <<"ratelimit:tenant:", tenantID>>

AllowIgnoringError(res) == [allowed |-> res.Allowed, err |-> NoErr]

(* Limiter.Allow, given the answer res of store.AllowN *)
Allow(res) ==
    IF res.err # NoErr THEN [allowed |-> FALSE, err |-> res.err]
    ELSE [allowed |-> res.Allowed, err |-> NoErr]

(* A body that is not JSON *)
InvalidJson == <<<<"{invalid json}">>>>

(* Request bodies on the wire: a JSON object as its list of key/value pairs,
   or a body that is not JSON. *)
Bodies ==
    {InvalidJson,
     <<<<"model", "m1">>, <<"max_tokens", 50>>>>,
     <<<<"MaxTokens", 50>>>>}

(* encoding/json matches an object key to a struct field by the field's name
   (provider.Request declares no json tags), ignoring case. *)
Fold(key) ==
    CASE key = "Model" -> "model"
      [] key = "MaxTokens" -> "maxtokens"
      [] OTHER -> key

HasField(json, name) == \E i \in 1..Len(json) : Fold(json[i][1]) = Fold(name)

(* The value of the last pair whose key matches the field, else the zero
   value of the field. *)
FieldOf(json, name, zero) ==
    IF HasField(json, name)
    THEN LET i == CHOOSE j \in 1..Len(json) :
                      /\ Fold(json[j][1]) = Fold(name)
                      /\ \A k \in (j + 1)..Len(json) : Fold(json[k][1]) # Fold(name)
         IN  json[i][2]
    ELSE zero

(* json.NewDecoder(r.Body).Decode(&req) into a provider.Request *)
DecodeRequest(json) ==
    IF \E i \in 1..Len(json) : Len(json[i]) # 2
    THEN [decoded |-> FALSE, model |-> "", maxTokens |-> 0]
    ELSE [decoded |-> TRUE, model |-> FieldOf(json, "Model", ""),
          maxTokens |-> FieldOf(json, "MaxTokens", 0)]

HandlerIds == 1..MaxHandlerRequests

NoCall ==
    [called |-> FALSE, key |-> <<>>, n |-> 0, body |-> <<>>,
     res |-> [Allowed |-> FALSE, err |-> NoErr]]

(* billing.UsageLog; costUSD counts billionths of a dollar *)
NoUsageLog ==
    [req |-> 0, tenant |-> "", provider |-> "", model |-> "",
     inputTokens |-> 0, outputTokens |-> 0, costUSD |-> 0, latencyMs |-> 0]

NoHreq ==
    [pc |-> "idle", ep |-> "", ctx |-> {}, tenant |-> "", model |-> "",
     allowN |-> NoCall, routed |-> FALSE, selected |-> 0, contacted |-> FALSE,
     status |-> 0, body |-> <<>>, retryAfter |-> "", logPending |-> FALSE,
     read |-> <<>>, execErr |-> "none", written |-> 0,
     upstream |-> "none", failures |-> 0, log |-> NoUsageLog, logCalls |-> 0,
     calls |-> <<>>, elapsed |-> 0, queries |-> <<>>,
     stored |-> {}, storedCost |-> 0, debits |-> <<>>]

(* w.WriteHeader(status) with the JSON body *)
Respond(r, status, body) ==
    [r EXCEPT !.pc = "done", !.status = status, !.body = body, !.written = @ + 1]

EstimatedTokens(maxTokens) ==
    IF maxTokens <= 0 THEN DefaultEstimatedTokens ELSE maxTokens

(* Handler.prepare from the limiter call on, for tenant tenantID *)
(* A handler that gives the tokens back when no provider is available *)
PrepareLimitedRefunding(r, tenantID, body, res, brs, t) ==
    LET req == DecodeRequest(body)
        r1 == [r EXCEPT !.tenant = tenantID, !.model = req.model,
                        !.allowN = [called |-> TRUE, key |-> LimiterKey(tenantID),
                                    n |-> EstimatedTokens(req.maxTokens),
                                    body |-> body, res |-> res],
                        !.debits = Append(@, <<LimiterKey(tenantID),
                                               EstimatedTokens(req.maxTokens)>>)]
        a == Allow(res)
        rt == Route(brs, req.model, t)
    IN  IF a.err # NoErr \/ ~a.allowed
        THEN [r |-> Respond([r1 EXCEPT !.retryAfter = "60s"], 429, JsonRateLimited),
              breakers |-> brs, route |-> NoRoute]
        ELSE [r |-> IF rt.err # NoErr
                    THEN Respond([r1 EXCEPT !.routed = TRUE,
                                            !.debits = Append(@, <<LimiterKey(tenantID),
                                                0 - EstimatedTokens(req.maxTokens)>>)],
                                 503, JsonError(rt.err))
                    ELSE [r1 EXCEPT !.routed = TRUE, !.selected = rt.p,
                                    !.pc = "prepared"],
              breakers |-> rt.breakers,
              route |-> [called |-> TRUE, model |-> req.model, at |-> t,
                         pre |-> brs, p |-> rt.p, err |-> rt.err]]

PrepareLimited(r, tenantID, body, res, brs, t) ==
    LET req == DecodeRequest(body)
        r1 == [r EXCEPT !.tenant = tenantID, !.model = req.model,
                        !.allowN = [called |-> TRUE, key |-> LimiterKey(tenantID),
                                    n |-> EstimatedTokens(req.maxTokens),
                                    body |-> body, res |-> res],
                        !.debits = Append(@, <<LimiterKey(tenantID),
                                               EstimatedTokens(req.maxTokens)>>)]
        a == Allow(res)
        rt == Route(brs, req.model, t)
    IN  IF a.err # NoErr \/ ~a.allowed
        THEN [r |-> Respond([r1 EXCEPT !.retryAfter = "60s"], 429, JsonRateLimited),
              breakers |-> brs, route |-> NoRoute]
        ELSE [r |-> IF rt.err # NoErr
                    THEN Respond([r1 EXCEPT !.routed = TRUE], 503, JsonError(rt.err))
                    ELSE [r1 EXCEPT !.routed = TRUE, !.selected = rt.p,
                                    !.pc = "prepared"],
              breakers |-> rt.breakers,
              route |-> [called |-> TRUE, model |-> req.model, at |-> t,
                         pre |-> brs, p |-> rt.p, err |-> rt.err]]

PrepareLimiterFirst(r, ctx, body, res, brs, t) ==
    LET tenantID == GetTenantID(ctx)
        a == Allow(res)
        r1 == [r EXCEPT !.tenant = tenantID, !.read = body]
    IN  IF tenantID = ""
        THEN [r |-> Respond(r, 401, JsonError("unauthorized")),
              breakers |-> brs, route |-> NoRoute]
        ELSE IF a.err # NoErr \/ ~a.allowed
        THEN PrepareLimited(r1, tenantID, body, res, brs, t)
        ELSE IF ~DecodeRequest(body).decoded
        THEN [r |-> Respond(r1, 400, JsonError("invalid request body")),
              breakers |-> brs, route |-> NoRoute]
        ELSE PrepareLimited(r1, tenantID, body, res, brs, t)

(* Handler.prepare *)
Prepare(r, ctx, body, res, brs, t) ==
    LET tenantID == GetTenantID(ctx)
        r1 == [r EXCEPT !.tenant = tenantID, !.read = body]
    IN  IF tenantID = ""
        THEN [r |-> Respond(r, 401, JsonError("unauthorized")),
              breakers |-> brs, route |-> NoRoute]
        ELSE IF ~DecodeRequest(body).decoded
        THEN [r |-> Respond(r1, 400, JsonError("invalid request body")),
              breakers |-> brs, route |-> NoRoute]
        ELSE PrepareLimited(r1, tenantID, body, res, brs, t)

(* HandleComplete and HandleCompleteStream up to the return of prepare *)
HandlePrepare(id, ep, ctx, body, res) ==
    LET out == Prepare([NoHreq EXCEPT !.ep = ep, !.ctx = ctx], ctx, body, res, breakers, now)
    IN  /\ hreq[id].pc = "idle"
        /\ \A j \in HandlerIds : j < id => hreq[j].pc # "idle"
        /\ hreq' = [hreq EXCEPT ![id] = out.r]
        /\ breakers' = out.breakers
        /\ lastRoute' = out.route
        /\ UNCHANGED <<now, providers, inflight, execHist, authVars, usageLogs, streamVars,
                       httpVars, callVars, logVars>>

(* HandleComplete after prepare: Router.Execute and the response *)
CostPerInputToken(p) == p.cost
CostPerOutputToken(p) == p.outCost

(* CostUSD as HandleComplete computes it from the response's token counts and
   the rates of selectedProvider *)
CostUSD(usage, p) ==
    usage[1] * CostPerInputToken(p) + usage[2] * CostPerOutputToken(p)

(* The token counts <<InputTokens, OutputTokens>> a response may carry *)
Usages == {<<1, 2>>}

(* The milliseconds a provider call can take *)
MaxElapsedMs == 1

(* provider.Response.LatencyMs: no adapter and no line of Router.Execute
   assigns the field, which keeps the zero value of int64 *)
ResponseLatencyMs == 0

(* The providers other than i that serve the model *)
Fallbacks(i, model) ==
    {j \in 1..Len(providers) : j # i /\ Supports(providers[j], model)}

(* A handler that falls back on another provider when the call fails *)
HandleCompleteExecuteRetrying(id, success, usage, elapsed) ==
    LET r == hreq[id]
        n == providers[r.selected].name
        b == BeforeRequest(breakers[n], now)
        failed == b.err # NoErr \/ ~success
        first == IF b.err # NoErr THEN <<>> ELSE <<r.selected>>
        theLog(j) == [req |-> id, tenant |-> r.tenant, provider |-> providers[j].name,
                      model |-> r.model, inputTokens |-> usage[1],
                      outputTokens |-> usage[2],
                      costUSD |-> CostUSD(usage, providers[j]),
                      latencyMs |-> ResponseLatencyMs]
    IN  /\ r.pc = "prepared" /\ r.ep = "complete"
        /\ lastRoute' = NoRoute
        /\ breakers' = [breakers EXCEPT ![n] =
               IF b.err # NoErr THEN b.cb ELSE AfterRequest(b.cb, b.gen, success, now)]
        /\ execHist' = [execHist EXCEPT ![n] =
               HistAfter(@, failed, b.err = NoErr, b.gen, now)]
        /\ hreq' = [hreq EXCEPT ![id] =
               IF failed /\ Fallbacks(r.selected, r.model) = {}
               THEN Respond([r EXCEPT !.contacted = (b.err = NoErr),
                                      !.execErr = IF b.err # NoErr THEN b.err
                                                  ELSE ErrUpstream,
                                      !.calls = first],
                            502, JsonError(ErrUpstream))
               ELSE LET j == IF failed
                             THEN CHOOSE k \in Fallbacks(r.selected, r.model) : TRUE
                             ELSE r.selected
                    IN  Respond([r EXCEPT !.contacted = TRUE, !.execErr = NoErr,
                                          !.upstream = "ok", !.log = theLog(j),
                                          !.logPending = TRUE,
                                          !.calls = IF failed THEN Append(first, j)
                                                    ELSE first],
                                200, <<>>)]
        /\ UNCHANGED <<now, providers, inflight, authVars, usageLogs, streamVars,
                       httpVars, callVars, logVars>>

HandleCompleteExecute(id, success, usage, elapsed) ==
    LET r == hreq[id]
        n == providers[r.selected].name
        theLog == [req |-> id, tenant |-> r.tenant, provider |-> n,
                   model |-> r.model, inputTokens |-> usage[1],
                   outputTokens |-> usage[2],
                   costUSD |-> CostUSD(usage, providers[r.selected]),
                   latencyMs |-> ResponseLatencyMs]
        b == BeforeRequest(breakers[n], now)
    IN  /\ r.pc = "prepared" /\ r.ep = "complete"
        /\ lastRoute' = NoRoute
        /\ IF b.err # NoErr
           THEN /\ breakers' = [breakers EXCEPT ![n] = b.cb]
                /\ execHist' = [execHist EXCEPT
                                   ![n] = HistAfter(@, TRUE, FALSE, b.gen, now)]
                /\ hreq' = [hreq EXCEPT ![id] =
                       Respond([r EXCEPT !.execErr = b.err], 502, JsonError(b.err))]
           ELSE /\ breakers' = [breakers EXCEPT
                                   ![n] = AfterRequest(b.cb, b.gen, success, now)]
                /\ execHist' = [execHist EXCEPT
                                   ![n] = HistAfter(@, ~success, TRUE, b.gen, now)]
                /\ hreq' = [hreq EXCEPT ![id] =
                       IF success
                       THEN [r EXCEPT !.contacted = TRUE, !.execErr = NoErr,
                                      !.upstream = "ok", !.log = theLog,
                                      !.logPending = TRUE,
                                      !.calls = Append(@, r.selected),
                                      !.elapsed = elapsed,
                                      !.pc = "responding"]
                       ELSE Respond([r EXCEPT !.contacted = TRUE,
                                              !.execErr = ErrUpstream,
                                              !.upstream = "upstream_failure",
                                              !.failures = 1,
                                              !.calls = Append(@, r.selected)],
                                    502, JsonError(ErrUpstream))]
        /\ UNCHANGED <<now, providers, inflight, authVars, usageLogs, streamVars,
                       httpVars, callVars, logVars>>

(* HandleComplete after the go statement of the usage record: the 200
   response is written *)
HandleCompleteRespond(id) ==
    /\ hreq[id].pc = "responding"
    /\ hreq' = [hreq EXCEPT ![id] = Respond(@, 200, <<>>)]
    /\ lastRoute' = NoRoute
    /\ UNCHANGED <<now, providers, breakers, inflight, execHist, authVars, usageLogs,
                   streamVars, httpVars, callVars, logVars>>

(* fmt.Errorf("circuit breaker is open for provider: %s", p.Name()) *)
ErrStreamOpen(n) == "circuit breaker is open for provider: " \o n

(* cb.Execute of a function that returns the error the stream reported *)
RecordFailure(cb, t) ==
    LET b == BeforeRequest(cb, t)
    IN  IF b.err # NoErr THEN b.cb ELSE AfterRequest(b.cb, b.gen, FALSE, t)

(* What a provider adapter's CompleteStream does with a request.  It returns
   an error only when the upstream request cannot be built ("refused");
   otherwise it returns a channel and reports everything on it: a transport
   failure or a status other than 200 as a first chunk carrying Err
   ("upstream_failure"), an error after some deltas ("aborted"), or deltas
   and Done ("ok"); or the client goes away and the channel is closed after
   deltas only ("cancelled"). *)
StreamOutcomes == {"refused", "upstream_failure", "aborted", "cancelled", "ok"}

CompleteStreamErr(outcome) == IF outcome = "refused" THEN ErrUpstream ELSE NoErr

StreamCarriesErr(outcome) == outcome \in {"upstream_failure", "aborted"}

(* 1 when cb.Execute admits the failing function and so counts a failure *)
FailuresCounted(cb, t) == IF BeforeRequest(cb, t).err = NoErr THEN 1 ELSE 0

(* HandleCompleteStream after prepare: Router.ExecuteStream, the event loop
   and the usage record.  The status line 200 is written with the first
   event, whatever the channel then carries. *)
HandleStreamExecute(id, outcome) ==
    LET r == hreq[id]
        n == providers[r.selected].name
        cur == CurrentState(breakers[n], now)
        r1 == [r EXCEPT !.contacted = TRUE, !.upstream = outcome,
                        !.calls = Append(@, r.selected)]
    IN  /\ r.pc = "prepared" /\ r.ep = "stream"
        /\ lastRoute' = NoRoute
        /\ IF cur.state = StateOpen
           THEN /\ breakers' = [breakers EXCEPT ![n] = cur]
                /\ hreq' = [hreq EXCEPT ![id] =
                       Respond([r EXCEPT !.execErr = ErrStreamOpen(n)], 502,
                               JsonError(ErrStreamOpen(n)))]
           ELSE IF CompleteStreamErr(outcome) # NoErr
           THEN /\ breakers' = [breakers EXCEPT ![n] = RecordFailure(cur, now)]
                /\ hreq' = [hreq EXCEPT ![id] =
                       Respond([r1 EXCEPT !.execErr = CompleteStreamErr(outcome),
                                          !.failures = FailuresCounted(cur, now)],
                               502, JsonError(CompleteStreamErr(outcome)))]
           ELSE /\ breakers' = [breakers EXCEPT ![n] =
                       IF StreamCarriesErr(outcome) THEN RecordFailure(cur, now)
                       ELSE cur]
                /\ hreq' = [hreq EXCEPT ![id] =
                       Respond([r1 EXCEPT !.execErr = NoErr, !.logPending = TRUE,
                                          !.log = [NoUsageLog EXCEPT
                                                      !.req = id,
                                                      !.tenant = r.tenant,
                                                      !.provider = n,
                                                      !.model = r.model],
                                          !.failures =
                                              IF StreamCarriesErr(outcome)
                                              THEN FailuresCounted(cur, now) ELSE 0],
                               200, <<"event-stream", outcome>>)]
        /\ UNCHANGED <<now, providers, inflight, execHist, authVars, usageLogs, streamVars,
                       httpVars, callVars, logVars>>

(* usage_logs.cost_usd is NUMERIC(12, 8): a hundred-millionth of a dollar,
   which is CostUnit billionths *)
CostUnit == 10

(* The value the column keeps of a cost: rounded to the nearest unit *)
NumericScale8(cost) == ((cost + CostUnit \div 2) \div CostUnit) * CostUnit

(* PostgresStore.LogUsage: the row inserted for a usage log *)
InsertedRow(log) == [log EXCEPT !.costUSD = NumericScale8(@)]

(* A usage recorder whose failure reaches the client *)
LogUsageSurfacing(id, fail) ==
    LET r == hreq[id]
    IN  /\ r.pc \in {"responding", "done"} /\ r.logPending
        /\ hreq' = [hreq EXCEPT ![id] =
               IF fail
               THEN Respond([r EXCEPT !.logPending = FALSE, !.logCalls = @ + 1],
                            500, JsonError(ErrBilling))
               ELSE [r EXCEPT !.logPending = FALSE, !.logCalls = @ + 1]]
        /\ usageLogs' = IF fail THEN usageLogs
                        ELSE usageLogs \cup {InsertedRow(r.log)}
        /\ lastRoute' = NoRoute
        /\ UNCHANGED <<now, providers, breakers, inflight, execHist, authVars,
                       streamVars, httpVars, callVars, logVars>>

(* A usage recorder that tries again when the store failed *)
LogUsageRetrying(id, fail) ==
    LET r == hreq[id]
    IN  /\ r.pc \in {"responding", "done"} /\ r.logPending
        /\ hreq' = [hreq EXCEPT ![id].logPending = fail, ![id].logCalls = @ + 1]
        /\ usageLogs' = IF fail THEN usageLogs
                        ELSE usageLogs \cup {InsertedRow(r.log)}
        /\ lastRoute' = NoRoute
        /\ UNCHANGED <<now, providers, breakers, inflight, execHist, authVars,
                       streamVars, httpVars, callVars, logVars>>

(* The goroutine of billing.LogUsage; a failure of the store is swallowed. *)
LogUsage(id, fail) ==
    LET r == hreq[id]
    IN  /\ r.pc \in {"responding", "done"} /\ r.logPending
        /\ hreq' = [hreq EXCEPT ![id].logPending = FALSE, ![id].logCalls = @ + 1]
        /\ usageLogs' = IF fail THEN usageLogs
                        ELSE usageLogs \cup {InsertedRow(r.log)}
        /\ lastRoute' = NoRoute
        /\ UNCHANGED <<now, providers, breakers, inflight, execHist, authVars,
                       streamVars, httpVars, callVars, logVars>>

(* The values of a from or to query parameter: absent, an RFC3339 instant
   and one that time.Parse rejects *)
ValidInstant == "2024-01-01T00:00:00Z"
QueryParams == {"", ValidInstant, "not-a-date"}
ParsesRFC3339(v) == v = ValidInstant

(* created_at BETWEEN from AND to: the rows are inserted during the run,
   after the instant a parameter can name, so that a given to excludes them
   and the default to (time.Now()) does not *)
InRange(from, to) == to = ""

(* PostgresStore.GetUsageByTenant and GetTotalCostByTenant *)
GetUsageByTenant(rows, tenantID, from, to) ==
    {row \in rows : row.tenant = tenantID /\ InRange(from, to)}

RECURSIVE SumCost(_)
SumCost(rows) ==
    IF rows = {} THEN 0
    ELSE LET row == CHOOSE x \in rows : TRUE
         IN  row.costUSD + SumCost(rows \ {row})

GetTotalCostByTenant(rows, tenantID, from, to) ==
    SumCost({row \in rows : row.tenant = tenantID /\ InRange(from, to)})

StoreErrors == {"none", "usage", "total"}

(* A handler that queries the store before it parses the parameters *)
HandleUsageQueryFirst(id, ctx, from, to, billingErr) ==
    LET tenantID == GetTenantID(ctx)
        r == [NoHreq EXCEPT !.ep = "usage", !.ctx = ctx]
        r1 == [r EXCEPT !.tenant = tenantID]
        q1 == <<[op |-> "GetUsageByTenant", tenant |-> tenantID]>>
        q2 == Append(q1, [op |-> "GetTotalCostByTenant", tenant |-> tenantID])
        logs == GetUsageByTenant(usageLogs, tenantID, from, to)
        totalCost == GetTotalCostByTenant(usageLogs, tenantID, from, to)
    IN  /\ hreq[id].pc = "idle"
        /\ \A j \in HandlerIds : j < id => hreq[j].pc # "idle"
        /\ hreq' = [hreq EXCEPT ![id] =
               IF tenantID = "" THEN Respond(r, 401, JsonError("unauthorized"))
               ELSE IF billingErr = "usage"
               THEN Respond([r1 EXCEPT !.queries = q1], 500, JsonError(ErrBilling))
               ELSE IF from # "" /\ ~ParsesRFC3339(from)
               THEN Respond([r1 EXCEPT !.queries = q1], 400,
                            JsonError("invalid 'from' date format (use RFC3339)"))
               ELSE IF to # "" /\ ~ParsesRFC3339(to)
               THEN Respond([r1 EXCEPT !.queries = q1], 400,
                            JsonError("invalid 'to' date format (use RFC3339)"))
               ELSE IF billingErr = "total"
               THEN Respond([r1 EXCEPT !.queries = q2], 500, JsonError(ErrBilling))
               ELSE Respond([r1 EXCEPT !.queries = q2, !.stored = logs,
                                       !.storedCost = totalCost], 200,
                            <<<<"tenant_id", tenantID>>,
                              <<"total_requests", Cardinality(logs)>>,
                              <<"total_cost_usd", totalCost>>>>)]
        /\ lastRoute' = NoRoute
        /\ UNCHANGED <<now, providers, breakers, inflight, execHist, authVars, usageLogs, streamVars,
                       httpVars, callVars, logVars>>

(* HandleUsage: from and to are the query parameters, billingErr tells which
   query of the billing store fails, if one does.  queries are the calls the
   handler made to the store, stored and storedCost what they returned. *)
HandleUsage(id, ctx, from, to, billingErr) ==
    LET tenantID == GetTenantID(ctx)
        r == [NoHreq EXCEPT !.ep = "usage", !.ctx = ctx]
        r1 == [r EXCEPT !.tenant = tenantID]
        q1 == <<[op |-> "GetUsageByTenant", tenant |-> tenantID]>>
        q2 == Append(q1, [op |-> "GetTotalCostByTenant", tenant |-> tenantID])
        logs == GetUsageByTenant(usageLogs, tenantID, from, to)
        totalCost == GetTotalCostByTenant(usageLogs, tenantID, from, to)
    IN  /\ hreq[id].pc = "idle"
        /\ \A j \in HandlerIds : j < id => hreq[j].pc # "idle"
        /\ hreq' = [hreq EXCEPT ![id] =
               IF tenantID = "" THEN Respond(r, 401, JsonError("unauthorized"))
               ELSE IF from # "" /\ ~ParsesRFC3339(from)
               THEN Respond(r1, 400, JsonError("invalid 'from' date format (use RFC3339)"))
               ELSE IF to # "" /\ ~ParsesRFC3339(to)
               THEN Respond(r1, 400, JsonError("invalid 'to' date format (use RFC3339)"))
               ELSE IF billingErr = "usage"
               THEN Respond([r1 EXCEPT !.queries = q1], 500, JsonError(ErrBilling))
               ELSE IF billingErr = "total"
               THEN Respond([r1 EXCEPT !.queries = q2], 500, JsonError(ErrBilling))
               ELSE Respond([r1 EXCEPT !.queries = q2, !.stored = logs,
                                       !.storedCost = totalCost], 200,
                            <<<<"tenant_id", tenantID>>,
                              <<"total_requests", Cardinality(logs)>>,
                              <<"total_cost_usd", totalCost>>>>)]
        /\ lastRoute' = NoRoute
        /\ UNCHANGED <<now, providers, breakers, inflight, execHist, authVars, usageLogs, streamVars,
                       httpVars, callVars, logVars>>

InitHandlerState ==
    /\ hreq = [id \in HandlerIds |-> NoHreq]
    /\ usageLogs = {}

----------------------------------------------------------------------------
(* Streaming: a provider adapter's CompleteStream goroutine, the forwarding
   goroutine of Router.ExecuteStream, and the event loop of
   HandleCompleteStream, joined by two channels. *)

Adapters == {"openai", "claude", "gemini"}

(* provider.Chunk; Delta is the position of the upstream line it came from *)
(* Text is a sequence of characters; the content of the k-th line of a
   stream *)
DeltaText(k) == <<"d", ToString(k)>>

DeltaChunk(k) == [Delta |-> DeltaText(k), Done |-> FALSE, Err |-> FALSE]
DoneChunk == [Delta |-> <<>>, Done |-> TRUE, Err |-> FALSE]
ErrChunk == [Delta |-> <<>>, Done |-> FALSE, Err |-> TRUE]
NoChunk == [Delta |-> <<>>, Done |-> FALSE, Err |-> FALSE]

WrappedChCapBuffered == MaxLines

(* wrappedCh := make(chan *provider.Chunk): the capacity of the channel *)
WrappedChCap == 0

(* The lines an upstream body is made of: a data line with text, a line the
   adapters skip, a data line that is not JSON, the upstream's end marker
   ([DONE], or the data of a message_stop event), the data of an error event. *)
LineKinds == {"text", "skip", "bad_json", "stop", "error_event"}
HttpResults == {"transport_error", "status_other", "status_200"}
BodyEnds == {"eof", "read_error"}

(* What the read loop of an adapter does with one line: the chunk it sends,
   if any, and whether it returns after the send. *)
Continue == [chunk |-> NoChunk, send |-> FALSE, return |-> FALSE]
Emit(c, ret) == [chunk |-> c, send |-> TRUE, return |-> ret]

OpenAIOnLine(kind, k) ==
    CASE kind = "text" -> Emit(DeltaChunk(k), FALSE)
      [] kind = "stop" -> Emit(DoneChunk, TRUE)
      [] kind = "bad_json" -> Emit(ErrChunk, TRUE)
      [] OTHER -> Continue

ClaudeOnLine(kind, k) ==
    CASE kind = "text" -> Emit(DeltaChunk(k), FALSE)
      [] kind = "stop" -> Emit(DoneChunk, TRUE)
      [] kind = "error_event" -> Emit(ErrChunk, TRUE)
      [] OTHER -> Continue

GeminiOnLine(kind, k) ==
    CASE kind = "text" -> Emit(DeltaChunk(k), FALSE)
      [] kind \in {"stop", "bad_json"} -> Emit(ErrChunk, TRUE)
      [] OTHER -> Continue

OnLineNoReturn(adapter, kind, k) ==
    LET o == CASE adapter = "openai" -> OpenAIOnLine(kind, k)
               [] adapter = "claude" -> ClaudeOnLine(kind, k)
               [] OTHER -> GeminiOnLine(kind, k)
    IN  [o EXCEPT !.return = FALSE]

OnLine(adapter, kind, k) ==
    CASE adapter = "openai" -> OpenAIOnLine(kind, k)
      [] adapter = "claude" -> ClaudeOnLine(kind, k)
      [] OTHER -> GeminiOnLine(kind, k)

(* reader.ReadString returned an error: io.EOF or another one *)
OnBodyEnd(end) == IF end = "eof" THEN Emit(DoneChunk, TRUE) ELSE Emit(ErrChunk, TRUE)

NoUpstream == [adapter |-> "", http |-> "", lines |-> <<>>, end |-> ""]
IdleProducer == [pc |-> "idle", pos |-> 1, chunk |-> NoChunk, sent |-> <<>>, made |-> 0]
IdleForwarder == [pc |-> "idle", chunk |-> NoChunk]
IdleConsumer == [pc |-> "idle", got |-> <<>>, logs |-> 0, body |-> <<>>]
LiveCtx == [done |-> FALSE, client |-> FALSE, mark |-> 0]

InitStreamState ==
    /\ upstream = NoUpstream
    /\ producer = IdleProducer
    /\ forwarder = IdleForwarder
    /\ wrappedCh = [buf |-> <<>>, closed |-> FALSE]
    /\ consumer = IdleConsumer
    /\ ctxDone = LiveCtx

StreamProvider == providers[1].name

(* HandleCompleteStream calls Router.ExecuteStream: with an open breaker it
   answers 502 and returns; otherwise CompleteStream starts the adapter's
   goroutine and ExecuteStream the forwarding one. *)
ExecuteStream ==
    LET cur == CurrentState(breakers[StreamProvider], now)
    IN  /\ consumer.pc = "idle"
        /\ breakers' = [breakers EXCEPT ![StreamProvider] = cur]
        /\ IF cur.state = StateOpen
           THEN /\ consumer' = [consumer EXCEPT !.pc = "returned"]
                /\ ctxDone' = [ctxDone EXCEPT !.done = TRUE]
                /\ UNCHANGED <<producer, forwarder>>
           ELSE /\ producer' = [producer EXCEPT !.pc = "do"]
                /\ forwarder' = [forwarder EXCEPT !.pc = "recv"]
                /\ consumer' = [consumer EXCEPT !.pc = "recv"]
                /\ UNCHANGED ctxDone
        /\ UNCHANGED <<now, providers, inflight, lastRoute, execHist, authVars,
                       handlerVars, upstream, wrappedCh, httpVars, callVars, logVars>>

(* The adapter's goroutine performs the HTTP request; a cancelled context
   fails it. *)
ProducerDo(ctxErr) ==
    /\ producer.pc = "do"
    /\ ctxErr => ctxDone.done
    /\ producer' =
          IF ctxErr \/ upstream.http # "status_200"
          THEN [producer EXCEPT !.pc = "last", !.chunk = ErrChunk, !.made = @ + 1]
          ELSE [producer EXCEPT !.pc = "read"]
    /\ UNCHANGED <<now, routerVars, authVars, handlerVars, upstream, forwarder,
                   wrappedCh, consumer, ctxDone, httpVars, callVars, logVars>>

(* One turn of the adapter's read loop: reader.ReadString and what follows,
   up to the select that sends a chunk.  A cancelled context may fail the
   read. *)
ProducerRead(ctxErr) ==
    LET atEnd == producer.pos > Len(upstream.lines)
        o == IF ctxErr THEN OnBodyEnd("read_error")
             ELSE IF atEnd THEN OnBodyEnd(upstream.end)
             ELSE OnLine(upstream.adapter, upstream.lines[producer.pos], producer.pos)
    IN  /\ producer.pc = "read"
        /\ ctxErr => ctxDone.done
        /\ producer' =
              [producer EXCEPT
                  !.pos = IF ctxErr \/ atEnd THEN @ ELSE @ + 1,
                  !.chunk = o.chunk,
                  !.made = IF o.send THEN @ + 1 ELSE @,
                  !.pc = IF ~o.send THEN "read"
                         ELSE IF o.return THEN "last" ELSE "send"]
        /\ UNCHANGED <<now, routerVars, authVars, handlerVars, upstream, forwarder,
                       wrappedCh, consumer, ctxDone, httpVars, callVars, logVars>>

(* The adapter's select, case ch <- chunk: the forwarding goroutine is at its
   receive and takes the chunk (the channel has no buffer). *)
ProducerSend ==
    /\ producer.pc \in {"send", "last"}
    /\ forwarder.pc = "recv"
    /\ producer' = [producer EXCEPT
                       !.pc = IF producer.pc = "last" THEN "closed" ELSE "read",
                       !.chunk = NoChunk,
                       !.sent = Append(@, producer.chunk)]
    /\ forwarder' = [pc |-> IF producer.chunk.Err THEN "execute" ELSE "send",
                     chunk |-> producer.chunk]
    /\ UNCHANGED <<now, routerVars, authVars, handlerVars, upstream, wrappedCh,
                   consumer, ctxDone, httpVars, callVars, logVars>>

(* An adapter whose select has the send case only *)
ProducerSendOnly == ProducerSend

(* The adapter's select, case <-ctx.Done(): return, and close(ch) *)
ProducerCancelled ==
    /\ producer.pc \in {"send", "last"}
    /\ ctxDone.done
    /\ producer' = [producer EXCEPT !.pc = "closed", !.chunk = NoChunk]
    /\ UNCHANGED <<now, routerVars, authVars, handlerVars, upstream, forwarder,
                   wrappedCh, consumer, ctxDone, httpVars, callVars, logVars>>

(* The forwarding goroutine received a chunk with Err: cb.Execute of a
   function that returns it. *)
ForwarderExecute ==
    /\ forwarder.pc = "execute"
    /\ breakers' = [breakers EXCEPT
                       ![StreamProvider] = RecordFailure(@, now)]
    /\ forwarder' = [forwarder EXCEPT !.pc = "send"]
    /\ UNCHANGED <<now, providers, inflight, lastRoute, execHist, authVars,
                   handlerVars, upstream, producer, wrappedCh, consumer, ctxDone,
                   httpVars, callVars, logVars>>

(* strings.ReplaceAll(s, old, new) for a pattern old of one character *)
RECURSIVE ReplaceAll(_, _, _)
ReplaceAll(s, old, new) ==
    IF s = <<>> THEN <<>>
    ELSE (IF Head(s) = old THEN new ELSE <<Head(s)>>) \o ReplaceAll(Tail(s), old, new)

(* The two replacements the event loop applies to chunk.Delta *)
EscapeDelta(s) == ReplaceAll(ReplaceAll(s, "\"", <<"\\", "\"">>), "\n", <<"\\", "n">>)

(* The text of chunk.Err.Error() *)
ErrText == <<"m">>

(* What the event loop writes for a delta, for Done and for an error: the
   format strings of fmt.Fprintf around the text *)
SSEData(delta) ==
    <<"data: {\"choices\":[{\"delta\":{\"content\":\"">> \o EscapeDelta(delta)
        \o <<"\"},\"index\":0}]}", "\n", "\n">>
SSEDone == <<"data: [DONE]", "\n", "\n">>
SSEError(m) ==
    <<"event: error", "\n", "data: {\"error\": \"">> \o m \o <<"\"}", "\n", "\n">>

SSEEvent(chunk) ==
    IF chunk.Err THEN SSEError(ErrText)
    ELSE IF chunk.Done THEN SSEDone
    ELSE SSEData(chunk.Delta)

(* An event loop that writes nothing for Done *)
AfterChunkSilentDone(c, chunk) ==
    [c EXCEPT !.got = Append(@, chunk),
              !.body = IF chunk.Done THEN @ ELSE Append(@, SSEEvent(chunk)),
              !.pc = IF chunk.Err \/ chunk.Done THEN "after" ELSE "recv"]

(* What the event loop does with a chunk: it writes its event and breaks
   after Err or Done *)
AfterChunk(c, chunk) ==
    [c EXCEPT !.got = Append(@, chunk),
              !.body = Append(@, SSEEvent(chunk)),
              !.pc = IF chunk.Err \/ chunk.Done THEN "after" ELSE "recv"]

(* A forwarding goroutine that does not pass on a chunk with Err *)
ForwarderSendLossy ==
    /\ forwarder.pc = "send"
    /\ IF forwarder.chunk.Err
       THEN UNCHANGED <<wrappedCh, consumer>>
       ELSE /\ consumer.pc = "recv" /\ wrappedCh.buf = <<>>
            /\ consumer' = AfterChunk(consumer, forwarder.chunk)
            /\ UNCHANGED wrappedCh
    /\ forwarder' = [pc |-> "recv", chunk |-> NoChunk]
    /\ UNCHANGED <<now, routerVars, authVars, handlerVars, upstream, producer,
                   ctxDone, httpVars, callVars, logVars>>

(* The forwarding goroutine's select, case wrappedCh <- chunk: the chunk goes
   into the channel's buffer if there is room, or to the event loop waiting
   at its receive. *)
ForwarderSend ==
    /\ forwarder.pc = "send"
    /\ IF Len(wrappedCh.buf) < WrappedChCap
       THEN /\ wrappedCh' = [wrappedCh EXCEPT !.buf = Append(@, forwarder.chunk)]
            /\ UNCHANGED consumer
       ELSE /\ consumer.pc = "recv" /\ wrappedCh.buf = <<>>
            /\ consumer' = AfterChunk(consumer, forwarder.chunk)
            /\ UNCHANGED wrappedCh
    /\ forwarder' = [pc |-> "recv", chunk |-> NoChunk]
    /\ UNCHANGED <<now, routerVars, authVars, handlerVars, upstream, producer,
                   ctxDone, httpVars, callVars, logVars>>

(* The forwarding goroutine's select, case <-ctx.Done(): return, and
   close(wrappedCh) *)
ForwarderCancelled ==
    /\ forwarder.pc = "send"
    /\ ctxDone.done
    /\ forwarder' = [pc |-> "closed", chunk |-> NoChunk]
    /\ wrappedCh' = [wrappedCh EXCEPT !.closed = TRUE]
    /\ UNCHANGED <<now, routerVars, authVars, handlerVars, upstream, producer,
                   consumer, ctxDone, httpVars, callVars, logVars>>

(* range origCh ends when the adapter closed its channel: close(wrappedCh) *)
ForwarderEnd ==
    /\ forwarder.pc = "recv"
    /\ producer.pc = "closed"
    /\ forwarder' = [pc |-> "closed", chunk |-> NoChunk]
    /\ wrappedCh' = [wrappedCh EXCEPT !.closed = TRUE]
    /\ UNCHANGED <<now, routerVars, authVars, handlerVars, upstream, producer,
                   consumer, ctxDone, httpVars, callVars, logVars>>

(* The event loop's receive from a channel that holds a chunk or is closed *)
HandlerRecv ==
    /\ consumer.pc = "recv"
    /\ IF wrappedCh.buf # <<>>
       THEN /\ consumer' = AfterChunk(consumer, Head(wrappedCh.buf))
            /\ wrappedCh' = [wrappedCh EXCEPT !.buf = Tail(@)]
       ELSE /\ wrappedCh.closed
            /\ consumer' = [consumer EXCEPT !.pc = "after"]
            /\ UNCHANGED wrappedCh
    /\ UNCHANGED <<now, routerVars, authVars, handlerVars, upstream, producer,
                   forwarder, ctxDone, httpVars, callVars, logVars>>

(* After the loop the handler starts the goroutine of billing.LogUsage and
   returns; the server then cancels the request's context. *)
HandlerReturn ==
    /\ consumer.pc = "after"
    /\ consumer' = [consumer EXCEPT !.pc = "returned", !.logs = @ + 1]
    /\ ctxDone' = [ctxDone EXCEPT !.done = TRUE]
    /\ UNCHANGED <<now, routerVars, authVars, handlerVars, upstream, producer,
                   forwarder, wrappedCh, httpVars, callVars, logVars>>

(* The client goes away during the stream: r.Context() is cancelled.  mark
   keeps what the event loop had received by then. *)
ClientCancel ==
    /\ consumer.pc \in {"recv", "after"}
    /\ ~ctxDone.done
    /\ ctxDone' = [done |-> TRUE, client |-> TRUE, mark |-> Len(consumer.got)]
    /\ UNCHANGED <<now, routerVars, authVars, handlerVars, upstream, producer,
                   forwarder, wrappedCh, consumer, httpVars, callVars, logVars>>

----------------------------------------------------------------------------
(* Router.ExecuteStream as the breaker of its provider sees it: the state
   check, the call of CompleteStream, and the reports of the forwarding
   goroutine.  streamCalls holds the streams whose CompleteStream has been
   called, each with the breaker generation at its state check. *)

(* What the callers of Router.ExecuteStream have seen of one provider's
   streams: sraw counts the latest consecutive streams that delivered an Err
   chunk, scnt those of them the breaker counted in its generation sgen with
   no result of a unary call in between; fwd tells whether the latest Err
   chunk reached the consumer. *)
StreamHistAfter(h, counted, gen, forwarded) ==
    [h EXCEPT !.sraw = Min(@ + 1, MaxCount),
              !.scnt = IF ~counted THEN @
                       ELSE IF h.sgen = gen /\ @ > 0 THEN Min(@ + 1, MaxCount)
                       ELSE 1,
              !.sgen = IF counted THEN gen ELSE @,
              !.fwd = forwarded]

(* ExecuteStream up to the call of p.CompleteStream: cb.State() and the
   refusal when it is open *)
StreamBegin(i) ==
    LET n == providers[i].name
        cur == CurrentState(breakers[n], now)
    IN  /\ cur.state # StateOpen => BagCardinality(streamCalls) < MaxStreams
        /\ breakers' = [breakers EXCEPT ![n] = cur]
        /\ streamCalls' =
               IF cur.state = StateOpen THEN streamCalls
               ELSE streamCalls (+) SetToBag({[p |-> i, before |-> cur.generation]})
        /\ lastRoute' = NoRoute
        /\ UNCHANGED <<now, providers, inflight, execHist, authVars, handlerVars,
                       streamVars, httpVars, logVars>>

(* p.CompleteStream returned an error: it is reported through cb.Execute and
   returned *)
StreamRefused(c) ==
    LET n == providers[c.p].name
    IN  /\ BagIn(c, streamCalls)
        /\ streamCalls' = streamCalls (-) SetToBag({c})
        /\ breakers' = [breakers EXCEPT ![n] = RecordFailure(@, now)]
        /\ lastRoute' = NoRoute
        /\ UNCHANGED <<now, providers, inflight, execHist, authVars, handlerVars,
                       streamVars, httpVars, logVars>>

(* A forwarding goroutine that passes an Err chunk on without telling the
   breaker *)
StreamErrUnreported(c, cancelled) ==
    LET n == providers[c.p].name
        b == BeforeRequest(breakers[n], now)
    IN  /\ BagIn(c, streamCalls)
        /\ streamCalls' = streamCalls (-) SetToBag({c})
        /\ breakers' = [breakers EXCEPT ![n] = CurrentState(@, now)]
        /\ execHist' = [execHist EXCEPT ![n] =
               StreamHistAfter(@, b.err = NoErr, b.gen, ~cancelled)]
        /\ lastRoute' = NoRoute
        /\ UNCHANGED <<now, providers, inflight, authVars, handlerVars, streamVars,
                       httpVars, logVars>>

(* The forwarding goroutine received a chunk with Err: cb.Execute of a
   function returning it, then the send unless the context is cancelled; the
   adapter closes the channel after it. *)
StreamErr(c, cancelled) ==
    LET n == providers[c.p].name
        b == BeforeRequest(breakers[n], now)
    IN  /\ BagIn(c, streamCalls)
        /\ streamCalls' = streamCalls (-) SetToBag({c})
        /\ breakers' = [breakers EXCEPT ![n] = RecordFailure(@, now)]
        /\ execHist' = [execHist EXCEPT ![n] =
               StreamHistAfter(@, b.err = NoErr, b.gen, ~cancelled)]
        /\ lastRoute' = NoRoute
        /\ UNCHANGED <<now, providers, inflight, authVars, handlerVars, streamVars,
                       httpVars, logVars>>

(* A forwarding goroutine that reports the end of a stream without Err as a
   success *)
StreamEndReported(c) ==
    LET n == providers[c.p].name
        b == BeforeRequest(breakers[n], now)
    IN  /\ BagIn(c, streamCalls)
        /\ streamCalls' = streamCalls (-) SetToBag({c})
        /\ breakers' = [breakers EXCEPT ![n] =
               IF b.err # NoErr THEN b.cb ELSE AfterRequest(b.cb, b.gen, TRUE, now)]
        /\ execHist' = [execHist EXCEPT ![n].sraw = 0, ![n].fwd = FALSE]
        /\ lastRoute' = NoRoute
        /\ UNCHANGED <<now, providers, inflight, authVars, handlerVars,
                       streamVars, httpVars, logVars>>

(* The stream ended without an Err chunk: nothing is reported to the
   breaker *)
StreamEnd(c) ==
    LET n == providers[c.p].name
    IN  /\ BagIn(c, streamCalls)
        /\ streamCalls' = streamCalls (-) SetToBag({c})
        /\ execHist' = [execHist EXCEPT ![n].sraw = 0, ![n].fwd = FALSE]
        /\ lastRoute' = NoRoute
        /\ UNCHANGED <<now, providers, breakers, inflight, authVars, handlerVars,
                       streamVars, httpVars, logVars>>

----------------------------------------------------------------------------
(* The chain of cmd/gateway: chi's RequestID, then the route; the protected
   routes pass through the authenticating middleware to their handler. *)

PublicRoutes == {"GET /healthz", "POST /v1/jobs", "GET /v1/jobs/{id}"}

CompletionRoutes ==
    {"POST /v1/chat/completions", "POST /v1/chat/completions/stream"}

ProtectedRoutes == CompletionRoutes \cup {"GET /v1/usage"}

Routes == PublicRoutes \cup ProtectedRoutes

HttpIds == 1..MaxHttpRequests

(* The X-Request-Id header of an inbound request; "" when it carries none *)
InboundIDs == {"", "client-id"}

(* uuid.New().String(): the k-th value differs from every other *)
NewUUID(k) == "uuid-" \o ToString(k)

(* chi's request id: the host prefix and its counter *)
ChiID(k) == "host-" \o ToString(k)

(* chimiddleware.RequestID: the inbound id, or a generated one, goes into
   chi's own context key; the response is not touched *)
ChiRequestID(inbound, made) ==
    IF inbound = "" THEN [id |-> ChiID(made.chi + 1),
                          made |-> [made EXCEPT !.chi = @ + 1]]
    ELSE [id |-> inbound, made |-> made]

(* auth.GetRequestID *)
GetRequestID(ctx) ==
    IF \E kv \in ctx : kv[1] = "request_id"
    THEN (CHOOSE kv \in ctx : kv[1] = "request_id")[2] ELSE ""

(* auth.WithRequestID, as context.WithValue(ctx, requestIDKey, requestID) *)
WithRequestID(ctx, requestID) ==
    {kv \in ctx : kv[1] # "request_id"} \cup {<<"request_id", requestID>>}

(* What the authenticating middleware does before it looks at the
   Authorization header: a new request id in the context and on the
   response *)
MiddlewareRequestID(made) ==
    [ctx |-> WithRequestID({}, NewUUID(made.uuid + 1)),
     header |-> NewUUID(made.uuid + 1),
     made |-> [made EXCEPT !.uuid = @ + 1]]

(* Handler.prepare: the request id of the context, or a new one *)
PrepareRequestID(ctx, made) ==
    IF GetRequestID(ctx) = ""
    THEN [requestID |-> NewUUID(made.uuid + 1), made |-> [made EXCEPT !.uuid = @ + 1]]
    ELSE [requestID |-> GetRequestID(ctx), made |-> made]

(* The statuses with which the middleware ends a request itself *)
MiddlewareStatuses == {401, 500}

(* The statuses a route's handler answers with *)
HandlerStatuses(route) ==
    CASE route = "GET /healthz" -> {200}
      [] route \in {"POST /v1/jobs", "GET /v1/jobs/{id}"} -> {501}
      [] route = "GET /v1/usage" -> {200, 400, 500}
      [] OTHER -> {200, 400, 429, 502, 503}

NoHttp ==
    [pc |-> "idle", route |-> "", inbound |-> "", chiID |-> "", requestID |-> "",
     header |-> "", status |-> 0, generated |-> 0, logPending |-> FALSE,
     logRequestID |-> "", logged |-> ""]

(* One request through the chain.  mwStatus is 0 when the middleware calls
   the handler, which then answers with status. *)
ServeHTTP(id, route, inbound, mwStatus, status) ==
    LET chi == ChiRequestID(inbound, idsMade)
        r0 == [NoHttp EXCEPT !.pc = "done", !.route = route, !.inbound = inbound,
                             !.chiID = chi.id]
        m == MiddlewareRequestID(chi.made)
        r1 == [r0 EXCEPT !.requestID = GetRequestID(m.ctx), !.header = m.header]
        pr == PrepareRequestID(m.ctx, m.made)
        out == IF route \in PublicRoutes
               THEN [r |-> [r0 EXCEPT !.status = status], made |-> chi.made]
               ELSE IF mwStatus # 0
               THEN [r |-> [r1 EXCEPT !.status = mwStatus], made |-> m.made]
               ELSE IF route \in CompletionRoutes
               THEN [r |-> [r1 EXCEPT !.status = status,
                                      !.logPending = (status = 200),
                                      !.logRequestID =
                                          IF status = 200 THEN pr.requestID ELSE ""],
                     made |-> pr.made]
               ELSE [r |-> [r1 EXCEPT !.status = status], made |-> m.made]
    IN  /\ httpReq[id].pc = "idle"
        /\ \A j \in HttpIds : j < id => httpReq[j].pc # "idle"
        /\ route \in PublicRoutes => mwStatus = 0
        /\ mwStatus # 0 => status = mwStatus
        /\ mwStatus = 0 => status \in HandlerStatuses(route)
        /\ httpReq' = [httpReq EXCEPT ![id] =
               [out.r EXCEPT !.generated = out.made.uuid - idsMade.uuid]]
        /\ idsMade' = out.made
        /\ UNCHANGED <<now, routerVars, authVars, handlerVars, streamVars, callVars, logVars>>

(* The goroutine of billing.LogUsage of a completion request *)
HttpLogUsage(id) ==
    /\ httpReq[id].logPending
    /\ httpReq' = [httpReq EXCEPT ![id].logPending = FALSE,
                                  ![id].logged = httpReq[id].logRequestID]
    /\ UNCHANGED <<now, routerVars, authVars, handlerVars, streamVars, idsMade,
                   callVars, logVars>>

InitHttpState ==
    /\ httpReq = [id \in HttpIds |-> NoHttp]
    /\ idsMade = [uuid |-> 0, chi |-> 0]

InitCallState == streamCalls = EmptyBag

(* Nothing has been logged *)
InitLogState == procLog = {}

----------------------------------------------------------------------------
(* SpecRoute: Route, called any number of times at one instant of the clock,
   over every provider list of up to MaxProviders providers and every
   combination of breakers that are fresh or were tripped by TripThreshold
   failed calls at time 0. *)

FailedCall(cb, t) ==
    LET b == BeforeRequest(cb, t)
    IN  IF b.err # NoErr THEN b.cb ELSE AfterRequest(b.cb, b.gen, FALSE, t)

RECURSIVE FailedCalls(_, _, _)
FailedCalls(cb, k, t) ==
    IF k = 0 THEN cb ELSE FailedCalls(FailedCall(cb, t), k - 1, t)

SeedBreakers ==
    {FailedCalls(NewCircuitBreaker(0), k, 0) : k \in {0, TripThreshold}}

ProviderLists ==
    UNION {{ps \in [1..n -> [name : {NameOf(i) : i \in 1..n}, cost : Costs,
                             models : ModelLists]] :
               \A i \in 1..n : ps[i].name = NameOf(i)} : n \in 0..MaxProviders}

RouteTimes == {k * BreakerInterval : k \in 0..(MaxTime \div BreakerInterval)}

InitRoute ==
    /\ now \in RouteTimes
    /\ providers \in ProviderLists
    /\ breakers \in [{providers[i].name : i \in 1..Len(providers)} -> SeedBreakers]
    /\ inflight = EmptyBag
    /\ lastRoute = NoRoute
    /\ execHist = [n \in DOMAIN breakers |-> NoHist]
    /\ InitAuthState
    /\ InitHandlerState
    /\ InitStreamState
    /\ InitHttpState
    /\ InitCallState
    /\ InitLogState

NextRoute == \E m \in Models \cup {""} : RouteCall(m)

SpecRoute == InitRoute /\ [][NextRoute]_vars

----------------------------------------------------------------------------
(* SpecBreaker: one provider (TargetName) receives Execute calls, alone or
   registered beside a second provider, while time passes. *)

Target == [name |-> TargetName, cost |-> 1, models |-> <<"m1">>]
Other == [name |-> NameOf(2), cost |-> 2, models |-> <<"m1", "m2">>]

BreakerLists == {<<Target>>, <<Other, Target>>}

InitBreaker ==
    /\ now = 0
    /\ providers \in BreakerLists
    /\ breakers = NewRouterBreakers(providers, now)
    /\ inflight = EmptyBag
    /\ lastRoute = NoRoute
    /\ execHist = [n \in DOMAIN breakers |-> NoHist]
    /\ InitAuthState
    /\ InitHandlerState
    /\ InitStreamState
    /\ InitHttpState
    /\ InitCallState
    /\ InitLogState

NextBreaker ==
    \/ Tick
    \/ RouteCall("")
    \/ \E i \in 1..Len(providers) :
           providers[i].name = TargetName /\ ExecuteBegin(i)
    \/ \E c \in BagToSet(inflight), ok \in BOOLEAN : ExecuteEnd(c, ok)

SpecBreaker == InitBreaker /\ [][NextBreaker]_vars

----------------------------------------------------------------------------
(* SpecAuth: up to MaxAuthRequests requests pass the middleware, concurrently,
   while the cache or the key store may fail and the key may be revoked. *)

InitAuth ==
    /\ now = 0
    /\ providers = <<>>
    /\ breakers = NewRouterBreakers(providers, now)
    /\ inflight = EmptyBag
    /\ lastRoute = NoRoute
    /\ execHist = [n \in DOMAIN breakers |-> NoHist]
    /\ InitAuthState
    /\ InitHandlerState
    /\ InitStreamState
    /\ InitHttpState
    /\ InitCallState
    /\ InitLogState

NextAuth ==
    \/ AuthTick
    \/ \E id \in AuthIds, h \in Headers, d \in BOOLEAN : MwBegin(id, h, d)
    \/ \E id \in AuthIds, d \in BOOLEAN : MwLookup(id, d)
    \/ \E id \in AuthIds, d \in BOOLEAN : MwCacheSet(id, d)
    \/ \E k \in {"k1"} : Revoke(k)

SpecAuth == InitAuth /\ [][NextAuth]_vars

(* The gateway started with RUN_SEED: the seeder, then requests that carry
   the seeded key, another key or no key *)
SeedHeaders == {<<"", "">>, <<BearerPrefix, TestAPIKey>>, <<BearerPrefix, "s1">>}

NextSeed ==
    \/ \E d \in BOOLEAN : SeedTestAPIKey(d)
    \/ AuthTick
    \/ \E id \in AuthIds, h \in SeedHeaders, d \in BOOLEAN : MwBegin(id, h, d)
    \/ \E id \in AuthIds, d \in BOOLEAN : MwLookup(id, d)
    \/ \E id \in AuthIds, d \in BOOLEAN : MwCacheSet(id, d)

SpecSeed == InitAuth /\ [][NextSeed]_vars

----------------------------------------------------------------------------
(* SpecHandler: up to MaxHandlerRequests requests reach the handlers, whose
   router has no provider or two (with the rates, in billionths of a dollar
   per token, of the OpenAI and the Gemini adapters), with breakers all fresh
   or all tripped at time 0;
   the requests arrive at once or after the breakers' timeout has passed. *)

HandlerProviderLists ==
    {<<>>,
     <<[name |-> NameOf(1), cost |-> 150, outCost |-> 600,
        models |-> <<"m1", "m2">>],
       [name |-> NameOf(2), cost |-> 125, outCost |-> 375,
        models |-> <<"m1">>]>>}

InitHandler ==
    /\ now \in {0, BreakerTimeout + BreakerInterval}
    /\ providers \in HandlerProviderLists
    /\ \E seed \in SeedBreakers :
           breakers = [n \in {providers[i].name : i \in 1..Len(providers)} |-> seed]
    /\ now # 0 => \A n \in DOMAIN breakers : breakers[n].state = StateOpen
    /\ inflight = EmptyBag
    /\ lastRoute = NoRoute
    /\ execHist = [n \in DOMAIN breakers |-> NoHist]
    /\ InitAuthState
    /\ InitHandlerState
    /\ InitStreamState
    /\ InitHttpState
    /\ InitCallState
    /\ InitLogState

NextHandler ==
    \/ \E id \in HandlerIds, ep \in Endpoints, ctx \in Contexts, body \in Bodies,
          res \in AllowNResults : HandlePrepare(id, ep, ctx, body, res)
    \/ \E id \in HandlerIds, ok \in BOOLEAN, u \in Usages :
          HandleCompleteExecute(id, ok, u, 0)
    \/ \E id \in HandlerIds : HandleCompleteRespond(id)
    \/ \E id \in HandlerIds, o \in StreamOutcomes :
          HandleStreamExecute(id, o)
    \/ \E id \in HandlerIds, fail \in BOOLEAN : LogUsage(id, fail)
    \/ \E id \in HandlerIds, ctx \in Contexts, f, t \in QueryParams \ {ValidInstant},
          e \in StoreErrors : HandleUsage(id, ctx, f, t, e)

SpecHandler == InitHandler /\ [][NextHandler]_vars

(* The unary handler serving the requests of two tenants the limiter admits,
   with provider calls that succeed and take time, over closed breakers *)
InitUsage ==
    /\ now = 0
    /\ providers \in HandlerProviderLists
    /\ breakers = [n \in {providers[i].name : i \in 1..Len(providers)} |-> NewCircuitBreaker(0)]
    /\ inflight = EmptyBag
    /\ lastRoute = NoRoute
    /\ execHist = [n \in DOMAIN breakers |-> NoHist]
    /\ InitAuthState
    /\ InitHandlerState
    /\ InitStreamState
    /\ InitHttpState
    /\ InitCallState
    /\ InitLogState

NextUsage ==
    \/ \E id \in HandlerIds, ctx \in TenantContexts, body \in Bodies \ {InvalidJson} :
          HandlePrepare(id, "complete", ctx, body, [Allowed |-> TRUE, err |-> NoErr])
    \/ \E id \in HandlerIds, ms \in 0..MaxElapsedMs :
          HandleCompleteExecute(id, TRUE, <<1, 2>>, ms)
    \/ \E id \in HandlerIds : HandleCompleteRespond(id)
    \/ \E id \in HandlerIds : LogUsage(id, FALSE)

SpecUsage == InitUsage /\ [][NextUsage]_vars

(* The usage handler answering the queries of two tenants over the logs their
   completed requests have written *)
NextQuery ==
    \/ \E id \in HandlerIds, ctx \in TenantContexts, body \in Bodies \ {InvalidJson} :
          HandlePrepare(id, "complete", ctx, body, [Allowed |-> TRUE, err |-> NoErr])
    \/ \E id \in HandlerIds : HandleCompleteExecute(id, TRUE, <<1, 2>>, 0)
    \/ \E id \in HandlerIds : HandleCompleteRespond(id)
    \/ \E id \in HandlerIds : LogUsage(id, FALSE)
    \/ \E id \in HandlerIds, ctx \in TenantContexts, f, t \in QueryParams, e \in StoreErrors :
          HandleUsage(id, ctx, f, t, e)

SpecQuery == InitUsage /\ [][NextQuery]_vars

(* The completion handlers serving the requests of two tenants, whatever the
   limiter, the router and the providers answer, up to the start of the
   goroutine that logs the usage *)
NextTenants ==
    \/ \E id \in HandlerIds, ep \in Endpoints, ctx \in TenantContexts, body \in Bodies,
          res \in AllowNResults : HandlePrepare(id, ep, ctx, body, res)
    \/ \E id \in HandlerIds, ok \in BOOLEAN : HandleCompleteExecute(id, ok, <<1, 2>>, 0)
    \/ \E id \in HandlerIds : HandleCompleteRespond(id)
    \/ \E id \in HandlerIds, o \in {"ok", "upstream_failure"} : HandleStreamExecute(id, o)

SpecTenants == InitUsage /\ [][NextTenants]_vars

----------------------------------------------------------------------------
(* SpecStream: one streaming request from the call of Router.ExecuteStream
   on, for each adapter and each upstream answer of up to MaxLines lines,
   with a breaker that is fresh or was just tripped, while the client
   may go away at any moment.  SpecStreamFair adds that each goroutine that
   can take a step does so eventually. *)

RECURSIVE SeqsUpTo(_, _)
SeqsUpTo(S, n) ==
    IF n = 0 THEN {<<>>}
    ELSE LET shorter == SeqsUpTo(S, n - 1)
         IN  shorter \cup {Append(q, x) : q \in shorter, x \in S}

Upstreams ==
    {[adapter |-> a, http |-> h, lines |-> <<>>, end |-> "eof"] :
        a \in Adapters, h \in HttpResults \ {"status_200"}}
    \cup {[adapter |-> a, http |-> "status_200", lines |-> ls, end |-> e] :
             a \in Adapters, ls \in SeqsUpTo(LineKinds, MaxLines), e \in BodyEnds}

InitStream ==
    /\ now = 0
    /\ providers = <<Target>>
    /\ breakers \in [{TargetName} -> SeedBreakers]
    /\ inflight = EmptyBag
    /\ lastRoute = NoRoute
    /\ execHist = [n \in DOMAIN breakers |-> NoHist]
    /\ InitAuthState
    /\ InitHandlerState
    /\ upstream \in Upstreams
    /\ producer = IdleProducer
    /\ forwarder = IdleForwarder
    /\ wrappedCh = [buf |-> <<>>, closed |-> FALSE]
    /\ consumer = IdleConsumer
    /\ ctxDone = LiveCtx
    /\ InitHttpState
    /\ InitCallState
    /\ InitLogState

ProducerStep ==
    \/ \E ctxErr \in BOOLEAN : ProducerDo(ctxErr)
    \/ \E ctxErr \in BOOLEAN : ProducerRead(ctxErr)
    \/ ProducerSend
    \/ ProducerCancelled

ForwarderStep ==
    \/ ForwarderExecute
    \/ ForwarderSend
    \/ ForwarderCancelled
    \/ ForwarderEnd

HandlerStep ==
    \/ ExecuteStream
    \/ HandlerRecv
    \/ HandlerReturn

NextStream ==
    \/ ProducerStep
    \/ ForwarderStep
    \/ HandlerStep
    \/ ClientCancel

SpecStream == InitStream /\ [][NextStream]_vars

SpecStreamFair ==
    /\ SpecStream
    /\ WF_vars(ProducerStep)
    /\ WF_vars(ForwarderStep)
    /\ WF_vars(HandlerStep)

----------------------------------------------------------------------------
(* Properties of Router.Route *)

(* The breaker of provider i was not open when the latest Route call
   examined it (cb.State() at the time of the call). *)
NotOpenAtRoute(i) ==
    CurrentState(lastRoute.pre[providers[i].name], lastRoute.at).state # StateOpen

(* The providers the latest Route call may choose from. *)
Eligible ==
    {i \in 1..Len(providers) :
        /\ NotOpenAtRoute(i)
        /\ lastRoute.model # "" => Supports(providers[i], lastRoute.model)}

(* C1: for a request with an empty model Route returns the provider of lowest
   CostPerInputToken among the registered providers whose breaker is not open,
   and among several of lowest cost the one registered first. *)
C1_LowestCostFirstRegistered ==
    (lastRoute.called /\ lastRoute.model = "" /\ Eligible # {}) =>
        /\ lastRoute.err = NoErr
        /\ lastRoute.p \in Eligible
        /\ \A j \in Eligible :
               /\ providers[lastRoute.p].cost <= providers[j].cost
               /\ providers[j].cost = providers[lastRoute.p].cost => lastRoute.p <= j

(* C1 witness: a cheaper provider registered first is open, and the provider
   returned ties with a provider registered after it. *)
C1_Witness ==
    /\ lastRoute.called /\ lastRoute.model = "" /\ lastRoute.p = 2
    /\ ~NotOpenAtRoute(1) /\ providers[1].cost < providers[2].cost
    /\ Len(providers) = 3 /\ NotOpenAtRoute(3)
    /\ providers[3].cost = providers[2].cost

(* C2: for a request naming model M Route returns the first provider in
   registration order whose breaker is not open and that supports M, whatever
   the costs, and a repeated call with nothing changed returns it again. *)
C2_FirstSupportingProvider ==
    (lastRoute.called /\ lastRoute.model # "" /\ Eligible # {}) =>
        /\ lastRoute.err = NoErr
        /\ lastRoute.p \in Eligible
        /\ \A j \in Eligible : lastRoute.p <= j
        /\ Route(breakers, lastRoute.model, now).p = lastRoute.p

(* C2 witness: the provider returned is not the first registered, and a
   cheaper eligible provider is registered after it. *)
C2_Witness ==
    /\ lastRoute.called /\ lastRoute.model = "m2" /\ lastRoute.p = 2
    /\ \E j \in Eligible : j > 2 /\ providers[j].cost < providers[2].cost
    /\ ~Supports(providers[1], "m2")

(* C3: Route returns "all providers unavailable" exactly when no registered
   provider has a non-open breaker and supports the named model (if any);
   otherwise it returns a provider, without error, whose breaker was not open
   when Route examined it. *)
C3_UnavailableIffNoCandidate ==
    lastRoute.called =>
        /\ (lastRoute.err = ErrAllUnavailable) <=> (Eligible = {})
        /\ lastRoute.err \in {ErrAllUnavailable, NoErr}
        /\ lastRoute.err = ErrAllUnavailable => lastRoute.p = 0
        /\ lastRoute.err = NoErr =>
               /\ lastRoute.p \in 1..Len(providers)
               /\ NotOpenAtRoute(lastRoute.p)

(* C3 witness: every registered provider is open, one call with the error. *)
C3_Witness ==
    /\ lastRoute.called /\ lastRoute.err = ErrAllUnavailable
    /\ Len(providers) >= 2
    /\ \A i \in 1..Len(providers) : ~NotOpenAtRoute(i)

(* C3 second witness condition, no provider registered at all. *)
C3_WitnessEmpty ==
    lastRoute.called /\ lastRoute.err = ErrAllUnavailable /\ Len(providers) = 0

----------------------------------------------------------------------------
(* Properties of the breaker trip *)

TargetIndexes == {i \in 1..Len(providers) : providers[i].name = TargetName}

OpenNow(n) == CurrentState(breakers[n], now).state = StateOpen

RouteAvoidsTarget ==
    LET r == Route(breakers, "", now)
    IN  /\ r.p \notin TargetIndexes
        /\ Len(providers) = 1 => r.err = ErrAllUnavailable
        /\ Len(providers) > 1 => r.err = NoErr /\ r.p # 0

(* C4 as stated: after 3 consecutive failed Router.Execute calls against P its
   breaker is open and Route with no model does not return P for 30 seconds. *)
C4_AsStated ==
    (execHist[TargetName].raw = TripThreshold
        /\ now <= execHist[TargetName].rawAt + BreakerTimeout) =>
        OpenNow(TargetName) /\ RouteAvoidsTarget

(* C4 amended: once the closed breaker of P has counted 3 consecutive failed
   Router.Execute calls within one of its intervals, it is open and Route with
   no model does not return P until more than 30 seconds have passed since
   the third failure. *)
C4_TripWithinInterval ==
    (execHist[TargetName].cnt = TripThreshold
        /\ now <= execHist[TargetName].at + BreakerTimeout) =>
        OpenNow(TargetName) /\ RouteAvoidsTarget

(* C4 witness: the breaker tripped and exactly 30 seconds later is still open,
   a Route call just returned the other provider. *)
C4_Witness ==
    /\ execHist[TargetName].cnt = TripThreshold
    /\ now = execHist[TargetName].at + BreakerTimeout
    /\ OpenNow(TargetName)
    /\ lastRoute.called /\ lastRoute.p \notin TargetIndexes /\ lastRoute.p # 0

----------------------------------------------------------------------------
(* Properties of the authenticating middleware *)

IsBearer(r) == r.hdr[1] # "" /\ HasPrefix(r.hdr, BearerPrefix)

SecretOf(r) == TrimPrefix(r.hdr, BearerPrefix)

LookedUp(r) == r.storeErr # "none"

(* C6: the middleware invokes the downstream handler only for a request whose
   bearer secret resolved, from the cache or the store, to the key record of
   that secret; a missing header, a header without the Bearer prefix and a
   secret the store reports as not found or inactive yield 401 and the
   downstream handler does not run. *)
C6_DownstreamOnlyForResolvedKey ==
    \A id \in AuthIds :
        LET r == mw[id]
        IN  r.pc = "done" =>
              /\ r.down =>
                    /\ IsBearer(r)
                    /\ r.cacheErr = NoErr \/ r.storeErr = NoErr
                    /\ \E row \in apiKeys :
                           row.keyHash = HashKey(SecretOf(r)) /\ row.tenant = r.tenant
              /\ ~IsBearer(r) =>
                    r.status = 401 /\ ~r.down /\ r.cacheErr = "none" /\ ~LookedUp(r)
              /\ (LookedUp(r) /\ r.storeErr # ErrStore /\ ~r.rowAtLookup.active) =>
                    r.status = 401 /\ ~r.down

(* C6 witness: one request was let through, and a request whose key the store
   holds as inactive was answered 401. *)
C6_Witness ==
    /\ \E id \in AuthIds : mw[id].pc = "done" /\ mw[id].down
    /\ \E id \in AuthIds :
           /\ mw[id].pc = "done" /\ mw[id].status = 401
           /\ mw[id].rowAtLookup.id = "k1" /\ ~mw[id].rowAtLookup.active

(* C7: a failure of the cache lookup is treated as a miss: the key store is
   consulted and decides the outcome as on a plain miss (accepted with the
   tenant of the active row, 401 when there is none); a failure of the key
   store yields 500 and the downstream handler is not invoked. *)
C7_CacheFailureIsMiss ==
    \A id \in AuthIds :
        LET r == mw[id]
        IN  (r.pc = "done" /\ r.cacheErr \in {RedisNil, ErrRedis}) =>
              /\ LookedUp(r)
              /\ r.storeErr = ErrStore => r.status = 500 /\ ~r.down
              /\ (r.storeErr # ErrStore /\ r.rowAtLookup.active) =>
                    r.down /\ r.tenant = r.rowAtLookup.tenant /\ r.status = 0
              /\ (r.storeErr # ErrStore /\ ~r.rowAtLookup.active) =>
                    r.status = 401 /\ ~r.down

(* C7 witness: the cache lookup failed and the request was accepted from the
   store, while another request met a store failure. *)
C7_Witness ==
    /\ \E id \in AuthIds :
           mw[id].pc = "done" /\ mw[id].cacheErr = ErrRedis /\ mw[id].down
    /\ \E id \in AuthIds :
           mw[id].pc = "done" /\ mw[id].cacheErr = ErrRedis /\ mw[id].status = 500

(* Requests a and b carry the same bearer secret, whose key is active. *)
SameValidSecret(a, b) ==
    /\ IsBearer(mw[a]) /\ IsBearer(mw[b])
    /\ SecretOf(mw[a]) = SecretOf(mw[b])
    /\ mw[a].rowAtGet.active /\ mw[b].rowAtGet.active

(* C8 as stated: two requests with the same valid secret within 5 minutes of
   each other cause at most one key-store lookup. *)
C8_AsStated ==
    \A a, b \in AuthIds :
        (/\ a # b /\ mw[a].pc = "done" /\ mw[b].pc = "done"
         /\ SameValidSecret(a, b)
         /\ mw[a].at <= mw[b].at /\ mw[b].at - mw[a].at < CacheTTL) =>
            ~(LookedUp(mw[a]) /\ LookedUp(mw[b]))

(* C8 amended: when the second request arrives after the first has completed
   and less than 5 minutes after it, the first wrote the cache entry and the
   second's cache read succeeds, the second is served from that entry and
   makes no key-store lookup. *)
C8_SequentialOneLookup ==
    \A a, b \in AuthIds :
        (/\ a \in mw[b].after /\ mw[b].pc # "idle"
         /\ SameValidSecret(a, b)
         /\ LookedUp(mw[a]) /\ mw[a].setOk
         /\ mw[b].cacheErr # ErrRedis
         /\ mw[b].at - mw[a].at < CacheTTL) =>
            /\ mw[b].cacheErr = NoErr /\ ~LookedUp(mw[b])
            /\ mw[b].pc = "done" /\ mw[b].down /\ mw[b].tenant = mw[a].tenant

(* C8 witness: the second request came one clock step before the entry of
   the first expired and was served from that entry. *)
C8_Witness ==
    \E a, b \in AuthIds :
        /\ a \in mw[b].after /\ SameValidSecret(a, b)
        /\ LookedUp(mw[a]) /\ mw[a].setOk
        /\ mw[b].at - mw[a].at = CacheTTL - AuthTickStep
        /\ mw[b].down /\ ~LookedUp(mw[b])

(* Request r arrived with the secret of a key that was revoked by then. *)
RevokedAtGet(r) == IsBearer(r) /\ r.rowAtGet.id # "" /\ ~r.rowAtGet.active

(* C9 as stated: a revoked key is accepted as long as its cache entry has not
   expired and is answered 401 on the first request after that. *)
C9_AsStated ==
    \A id \in AuthIds :
        LET r == mw[id]
        IN  (r.pc = "done" /\ RevokedAtGet(r)) =>
                IF r.cachedAtGet THEN r.down ELSE r.status = 401 /\ ~r.down

(* C9 amended: a revoked key is accepted on every request whose cache lookup
   succeeds while the entry has not expired; once the entry has expired, or
   when the cache lookup fails, the request is not accepted: 401 when the key
   store answers, 500 when it fails.  Revocation leaves the cache as it is. *)
C9_RevokedUntilExpiry ==
    /\ \A id \in AuthIds :
        LET r == mw[id]
        IN  (r.pc = "done" /\ RevokedAtGet(r)) =>
              /\ (r.cachedAtGet /\ r.cacheErr # ErrRedis) =>
                    r.down /\ r.tenant = r.rowAtGet.tenant /\ ~LookedUp(r)
              /\ (~r.cachedAtGet \/ r.cacheErr = ErrRedis) =>
                    /\ ~r.down
                    /\ r.storeErr \in {ErrKeyNotFound, ErrStore}
                    /\ r.storeErr = ErrKeyNotFound => r.status = 401
                    /\ r.storeErr = ErrStore => r.status = 500
    /\ \A k \in DOMAIN cache :
           cache[k].present => UnmarshalBinary(cache[k].val).active

(* C9 witness: the key was revoked, and a request was accepted from the cache
   one clock step before the entry expired. *)
C9_Witness ==
    \E a, b \in AuthIds :
        /\ mw[b].pc = "done" /\ RevokedAtGet(mw[b]) /\ mw[b].cachedAtGet /\ mw[b].down
        /\ mw[a].setOk /\ mw[b].at = mw[a].at + CacheTTL - AuthTickStep

(* C9 second witness: the first request after the entry expired got 401. *)
C9_WitnessExpired ==
    \E b \in AuthIds :
        /\ mw[b].pc = "done" /\ RevokedAtGet(mw[b]) /\ ~mw[b].cachedAtGet
        /\ cache[RedisKey(SecretOf(mw[b]))].present
        /\ mw[b].at = cache[RedisKey(SecretOf(mw[b]))].exp
        /\ mw[b].status = 401

----------------------------------------------------------------------------
(* Properties of the handlers *)

(* The context of request r holds no tenant identity. *)
NoTenantIdentity(r) == ~\E kv \in r.ctx : kv[1] = "tenant_id" /\ kv[2] # ""

(* No usage record of request id exists or is about to be written. *)
NoLog(id) == ~hreq[id].logPending /\ ~\E u \in usageLogs : u.req = id

(* C5: a request to either completion endpoint or to the usage endpoint whose
   context carries no tenant identity (none, or an empty one) is answered 401
   with the JSON body {"error":"unauthorized"}; the limiter is not debited,
   no provider is contacted and no usage record is written for it. *)
C5_NoTenantUnauthorized ==
    \A id \in HandlerIds :
        LET r == hreq[id]
        IN  (r.pc # "idle" /\ NoTenantIdentity(r)) =>
              /\ r.pc = "done" /\ r.status = 401
              /\ r.body = <<<<"error", "unauthorized">>>>
              /\ ~r.allowN.called /\ ~r.routed /\ ~r.contacted /\ NoLog(id)

(* C5 witness: requests without tenant identity were answered on a completion
   endpoint and on the usage endpoint. *)
C5_Witness ==
    /\ \E id \in HandlerIds :
           /\ hreq[id].ep \in Endpoints /\ hreq[id].ctx = {}
           /\ hreq[id].status = 401
    /\ \E id \in HandlerIds :
           /\ hreq[id].ep = "usage" /\ NoTenantIdentity(hreq[id])
           /\ hreq[id].status = 401

(* C10: on both completion endpoints a request the limiter was asked about
   and did not allow (the store answered allowed = false or failed) is
   answered 429 with the header Retry-After: 60s and the body
   {"error":"rate limit exceeded","retry_after":"60s"}; Route is not called,
   no provider is contacted and no usage record is written. *)
C10_DeniedIs429 ==
    \A id \in HandlerIds :
        LET r == hreq[id]
        IN  (r.ep \in Endpoints /\ r.allowN.called
               /\ (r.allowN.res.err # NoErr \/ ~r.allowN.res.Allowed)) =>
              /\ r.pc = "done" /\ r.status = 429 /\ r.retryAfter = "60s"
              /\ r.body = <<<<"error", "rate limit exceeded">>,
                            <<"retry_after", "60s">>>>
              /\ ~r.routed /\ ~r.contacted /\ NoLog(id)

(* C10 witness: one request was denied by the store's answer, another by the
   store's failure although that answer said allowed. *)
C10_Witness ==
    /\ \E id \in HandlerIds :
           /\ hreq[id].ep = "complete" /\ hreq[id].status = 429
           /\ hreq[id].allowN.res.err = NoErr
    /\ \E id \in HandlerIds :
           /\ hreq[id].ep = "stream" /\ hreq[id].status = 429
           /\ hreq[id].allowN.res.err = ErrLimiter
           /\ hreq[id].allowN.res.Allowed

(* The value the request body gives under the JSON key max_tokens; 0 when the
   key is absent. *)
MaxTokensOfBody(json) ==
    IF \E i \in 1..Len(json) : json[i][1] = "max_tokens"
    THEN json[CHOOSE i \in 1..Len(json) : json[i][1] = "max_tokens"][2]
    ELSE 0

(* C11: the number of tokens a request asks the limiter to debit from the
   tenant's bucket is the max_tokens value of its body when that value is
   positive, and 1000 when it is absent, zero or negative. *)
C11_AsStated ==
    \A id \in HandlerIds :
        LET a == hreq[id].allowN
        IN  a.called =>
              /\ a.key = <<"ratelimit:tenant:", hreq[id].tenant>>
              /\ a.n = IF MaxTokensOfBody(a.body) > 0
                       THEN MaxTokensOfBody(a.body) ELSE 1000

(* Request r came to the unary completion endpoint with a tenant identity and
   has been answered. *)
UnaryAnswered(r) == r.ep = "complete" /\ r.pc = "done" /\ ~NoTenantIdentity(r)

BodyDecodes(json) == \A i \in 1..Len(json) : Len(json[i]) = 2

(* C12 as stated: an authenticated unary request gets exactly one status: 400
   with {"error":"invalid request body"} when the body does not decode (also
   when the limiter would deny), 503 when Route fails, 502 when the executed
   provider call returns an error, and 200 otherwise (429 aside). *)
C12_AsStated ==
    \A id \in HandlerIds :
        LET r == hreq[id]
        IN  (UnaryAnswered(r) /\ r.status # 429) =>
              /\ r.written = 1
              /\ r.status =
                    IF ~BodyDecodes(r.read) THEN 400
                    ELSE IF r.routed /\ r.selected = 0 THEN 503
                    ELSE IF r.contacted /\ r.execErr # NoErr THEN 502
                    ELSE 200

(* C12 amended: as stated, and 502 also when the provider's breaker rejects
   the call at Router.Execute (it opened, or is half-open with its quota of
   requests used, after Route chose the provider), in which case the provider
   is not called; 200 only when the provider call ran and returned no error. *)
C12_OneStatusPerOutcome ==
    \A id \in HandlerIds :
        LET r == hreq[id]
        IN  UnaryAnswered(r) =>
              /\ r.written = 1
              /\ ~BodyDecodes(r.read) =>
                    /\ r.status = 400 /\ ~r.allowN.called
                    /\ r.body = <<<<"error", "invalid request body">>>>
              /\ (BodyDecodes(r.read) /\ r.status # 429) =>
                    r.status =
                        IF r.routed /\ r.selected = 0 THEN 503
                        ELSE IF r.execErr # NoErr THEN 502
                        ELSE 200
              /\ r.status = 200 => r.contacted /\ r.execErr = NoErr
              /\ (r.status = 502 /\ ~r.contacted) =>
                    r.execErr \in {ErrOpenState, ErrTooManyRequests}

(* C12 witness: a request whose provider's breaker opened after Route chose
   it was answered 502 without a provider call, next to a request answered
   after its provider call. *)
C12_Witness ==
    \E a, b \in HandlerIds :
        /\ UnaryAnswered(hreq[a]) /\ hreq[a].contacted
        /\ UnaryAnswered(hreq[b]) /\ hreq[b].status = 502
        /\ ~hreq[b].contacted /\ BodyDecodes(hreq[b].read)

(* C12 second witness: a body that does not decode was answered 400 and
   another request was answered 503 or 200. *)
C12_WitnessInvalidBody ==
    \E a, b \in HandlerIds :
        /\ UnaryAnswered(hreq[a]) /\ hreq[a].status = 400
        /\ UnaryAnswered(hreq[b]) /\ hreq[b].status \in {503, 200}

(* Request r was executed and its provider adapter reported a transport
   failure or a status other than 2xx. *)
UpstreamFailed(r) == r.pc = "done" /\ r.upstream = "upstream_failure"

(* C13 as stated: on the streaming endpoint as on the unary one, when the
   adapter reports a non-2xx upstream status or a transport failure the
   client receives 502 and the provider's breaker records one failure. *)
C13_AsStated ==
    \A id \in HandlerIds :
        UpstreamFailed(hreq[id]) => hreq[id].status = 502 /\ hreq[id].failures = 1

----------------------------------------------------------------------------
(* Properties of a stream *)

IsPrefix(p, q) == Len(p) <= Len(q) /\ \A i \in 1..Len(p) : p[i] = q[i]

(* The chunk the forwarding goroutine has received and not yet passed on,
   with those in the wrapped channel's buffer behind what was consumed *)
InForwarding ==
    wrappedCh.buf \o (IF forwarder.pc \in {"execute", "send"}
                      THEN <<forwarder.chunk>> ELSE <<>>)

(* C14: what the handler has received from the channel of ExecuteStream is
   at every moment a prefix of what the adapter has sent, and while the
   context is not cancelled it is all of it but the chunk in the forwarding
   goroutine's hands; the channel is closed only once the adapter's channel
   is closed or the context is cancelled, and a channel closed without
   cancellation has delivered every chunk the adapter sent. *)
C14_OrderedLossless ==
    /\ IsPrefix(consumer.got, producer.sent)
    /\ ~ctxDone.done => producer.sent = consumer.got \o InForwarding
    /\ wrappedCh.closed => producer.pc = "closed" \/ ctxDone.done
    /\ (wrappedCh.closed /\ ~ctxDone.client) => consumer.got = producer.sent

(* C14 witness: a stream of at least two deltas and an error chunk was
   delivered whole and the channel closed, with no cancellation before. *)
C14_Witness ==
    /\ wrappedCh.closed /\ ~ctxDone.done
    /\ Len(consumer.got) >= 3
    /\ consumer.got[Len(consumer.got)].Err
    /\ consumer.got = producer.sent

Terminal(chunk) == chunk.Done \/ chunk.Err

(* No chunk of q but the last is terminal *)
OnlyLastTerminal(q) == \A i \in 1..Len(q) : Terminal(q[i]) => i = Len(q)

EndsTerminal(q) == q # <<>> /\ Terminal(q[Len(q)])

(* C15 as stated: every stream the handler receives is deltas followed by
   exactly one terminal chunk, after which the wrapped channel is closed. *)
C15_AsStated ==
    /\ OnlyLastTerminal(consumer.got)
    /\ wrappedCh.closed => EndsTerminal(consumer.got)

(* C15 amended: for each adapter, no chunk follows a terminal chunk, in what
   the adapter sends and in what the handler receives, and a wrapped channel
   closed while the client is still there has delivered exactly one terminal
   chunk, as its last; when the client has gone the channel may be closed
   after deltas only, or after nothing. *)
C15_OneTerminalUnlessCancelled ==
    /\ OnlyLastTerminal(producer.sent)
    /\ OnlyLastTerminal(consumer.got)
    /\ (wrappedCh.closed /\ ~ctxDone.client) => EndsTerminal(consumer.got)
    /\ (consumer.pc \in {"after", "returned"} /\ producer.pc # "idle"
           /\ ~ctxDone.client) => EndsTerminal(consumer.got)

(* C15 witness: the client went away after a delta and the channel was closed
   with no terminal chunk. *)
C15_Witness ==
    /\ wrappedCh.closed /\ ctxDone.client
    /\ consumer.got # <<>> /\ ~EndsTerminal(consumer.got)

(* C15 second witness: a stream of two deltas and Done, closed after Done *)
C15_WitnessWhole ==
    /\ wrappedCh.closed /\ ~ctxDone.client
    /\ Len(consumer.got) = 3 /\ consumer.got[3].Done

Stopped(g) == g.pc \in {"idle", "closed"}

(* C16 as stated, its first part: once the context is cancelled the
   forwarding goroutine forwards no further chunk. *)
C16_AsStated == ctxDone.client => Len(consumer.got) = ctxDone.mark

(* C16 amended: once a request's context is cancelled, by the client going
   away or by the handler returning, the forwarding goroutine and the
   adapter's goroutine both terminate, the wrapped channel being closed; until
   it terminates the forwarding goroutine may still hand the event loop a
   chunk, when its select finds both the send and ctx.Done ready. *)
C16_BothTerminate ==
    ctxDone.done ~> (Stopped(producer) /\ Stopped(forwarder)
                     /\ (forwarder.pc = "closed" => wrappedCh.closed))

(* C16 witness: the client went away in mid-stream, a chunk the adapter had
   sent was not forwarded, and both goroutines have terminated. *)
C16_Witness ==
    /\ ctxDone.client /\ producer.pc = "closed" /\ forwarder.pc = "closed"
    /\ Len(consumer.got) < Len(producer.sent)
    /\ consumer.pc = "returned"

(* The upstream lines the adapter has read that made it send a chunk *)
EmittingLinesRead ==
    Cardinality({i \in 1..(producer.pos - 1) :
                    OnLine(upstream.adapter, upstream.lines[i], i).send})

(* C17: the chunks the adapter has made and the handler has not received are
   never more than two, one in the adapter's select and one in the
   forwarding goroutine's, however long the stream; the adapter has read no
   line past those two chunks. *)
C17_BoundedUnconsumed ==
    /\ producer.made - Len(consumer.got) <= 2
    /\ EmittingLinesRead - Len(consumer.got) <= 2

(* C17 witness: the handler has received one delta, two more chunks are made
   and the adapter waits in its select, the upstream body not read to its
   end. *)
C17_Witness ==
    /\ Len(consumer.got) = 1 /\ producer.made = 3
    /\ producer.pc = "send" /\ forwarder.pc = "send"
    /\ ~ctxDone.done

----------------------------------------------------------------------------
(* Properties of the usage records *)

(* C18 as stated: every usage log written carries cost_usd = input_tokens x
   CostPerInputToken(P) + output_tokens x CostPerOutputToken(P), P being the
   provider Route chose for the request. *)
C18_AsStated ==
    \A l \in usageLogs :
        LET P == providers[hreq[l.req].selected]
        IN  l.costUSD = l.inputTokens * CostPerInputToken(P)
                            + l.outputTokens * CostPerOutputToken(P)

(* C19: billing.LogUsage is invoked at most once for a request, and at most
   one usage log is written for it, whatever the outcome. *)
C19_AtMostOneLog ==
    \A id \in HandlerIds :
        /\ hreq[id].logCalls <= 1
        /\ hreq[id].logPending => hreq[id].logCalls = 0
        /\ Cardinality({l \in usageLogs : l.req = id}) <= 1

(* C19 witness: LogUsage ran once for a stream that broke off or whose client
   went away, and once, the store failing, for another request. *)
C19_Witness ==
    \E a, b \in HandlerIds :
        /\ a # b
        /\ hreq[a].logCalls = 1 /\ hreq[a].upstream \in {"aborted", "cancelled"}
        /\ hreq[b].logCalls = 1 /\ ~\E l \in usageLogs : l.req = b

(* Request r was routed to a provider, handed to Router.Execute or
   Router.ExecuteStream, and answered. *)
Executed(r) == r.pc = "done" /\ r.routed /\ r.selected # 0 /\ r.execErr # "none"

(* C20 as stated: every request that was routed and handed to the executor
   leads to one LogUsage call once it has terminated, whether it succeeded or
   failed. *)
C20_AsStated ==
    \A id \in HandlerIds :
        Executed(hreq[id]) => hreq[id].logPending \/ hreq[id].logCalls = 1

(* What the client sees of request r, and whether the handler has returned *)
ResponseOf(r) == <<r.pc, r.status, r.body, r.retryAfter, r.written>>

(* C21: the handler writes its response and returns in its own right,
   whether billing.LogUsage has run, has failed or has not returned: a
   request with a usage record is answered 200 once, and a step of LogUsage,
   failing or not, changes nothing of the response, and it runs once. *)
C21_ResponseIndependentOfLogUsage ==
    /\ [](\A id \in HandlerIds :
             (hreq[id].logPending \/ hreq[id].logCalls > 0) =>
                 /\ hreq[id].pc \in {"responding", "done"}
                 /\ hreq[id].pc = "done" =>
                        hreq[id].written = 1 /\ hreq[id].status = 200)
    /\ [][\A id \in HandlerIds :
             hreq'[id].logCalls # hreq[id].logCalls =>
                 /\ ResponseOf(hreq'[id]) = ResponseOf(hreq[id])
                 /\ hreq'[id].logCalls = 1 /\ ~hreq'[id].logPending]_vars

(* C21 witness: one request was answered 200 and its LogUsage failed, another
   was answered 200 and its LogUsage has not run. *)
C21_Witness ==
    \E a, b \in HandlerIds :
        /\ hreq[a].status = 200 /\ hreq[a].logCalls = 1
        /\ ~\E l \in usageLogs : l.req = a
        /\ hreq[b].status = 200 /\ hreq[b].logPending


(* The errors with which a breaker rejects a call without running it *)
BreakerRejections(n) == {ErrOpenState, ErrTooManyRequests, ErrStreamOpen(n)}

(* C22: nothing is retried inside the gateway.  A request invokes at most
   one provider operation, and only on the provider Route selected; a
   request whose call failed, or which the provider's breaker rejected after
   Route had selected it, has ended with status 502, and a rejected request
   has invoked no provider operation at all. *)
C22_NothingRetried == \A id \in HandlerIds :
    LET r == hreq[id]
    IN  /\ Len(r.calls) <= 1
        /\ \A k \in 1..Len(r.calls) : r.routed /\ r.calls[k] = r.selected
        /\ r.contacted <=> Len(r.calls) = 1
        /\ r.execErr \notin {"none", NoErr} =>
               /\ r.pc = "done" /\ r.status = 502 /\ r.written = 1
               /\ ~r.logPending /\ r.logCalls = 0
        /\ r.upstream \in {"upstream_failure", "refused"} /\ r.ep = "complete" =>
               r.status = 502
        /\ (r.selected # 0 /\
            r.execErr \in BreakerRejections(providers[r.selected].name)) =>
               r.calls = <<>>

(* A unary call failed while another provider served the model, and the
   request ended with 502 after that single call *)
C22_Witness == \E id \in HandlerIds :
    /\ hreq[id].ep = "complete" /\ hreq[id].execErr = ErrUpstream
    /\ hreq[id].status = 502 /\ hreq[id].calls = <<hreq[id].selected>>
    /\ Fallbacks(hreq[id].selected, hreq[id].model) # {}

(* The breaker rejected a routed request while another provider served the
   model *)
C22_WitnessRejected == \E id \in HandlerIds :
    /\ hreq[id].selected # 0 /\ hreq[id].status = 502 /\ hreq[id].calls = <<>>
    /\ hreq[id].execErr \in BreakerRejections(providers[hreq[id].selected].name)
    /\ Fallbacks(hreq[id].selected, hreq[id].model) # {}


----------------------------------------------------------------------------
(* SpecHttp: up to MaxHttpRequests requests, with or without an inbound
   request id, arrive on the routes main registers. *)

InitHttp ==
    /\ now = 0
    /\ providers = <<>>
    /\ breakers = NewRouterBreakers(providers, now)
    /\ inflight = EmptyBag
    /\ lastRoute = NoRoute
    /\ execHist = [n \in DOMAIN breakers |-> NoHist]
    /\ InitAuthState
    /\ InitHandlerState
    /\ InitStreamState
    /\ InitHttpState
    /\ InitCallState
    /\ InitLogState

NextHttp ==
    \/ \E id \in HttpIds, route \in Routes, inbound \in InboundIDs,
          mwStatus \in MiddlewareStatuses \cup {0},
          status \in {200, 400, 401, 429, 500, 501, 502, 503} :
          ServeHTTP(id, route, inbound, mwStatus, status)
    \/ \E id \in HttpIds : HttpLogUsage(id)

SpecHttp == InitHttp /\ [][NextHttp]_vars

(* C23: every response carries X-Request-ID; its value is the request_id of
   the request context and of the usage log; a new id is generated only for
   a request that carries none. *)
C23_AsStated == \A id \in HttpIds :
    LET r == httpReq[id]
    IN  r.pc = "done" =>
          /\ r.header # ""
          /\ r.header = r.requestID
          /\ r.logged # "" => r.logged = r.header
          /\ r.generated > 0 => r.inbound = ""

(* A protected route answered a request that carried an id with another one *)
C23_InboundIgnored == \E id \in HttpIds :
    /\ httpReq[id].pc = "done" /\ httpReq[id].route \in ProtectedRoutes
    /\ httpReq[id].inbound # "" /\ httpReq[id].header # httpReq[id].inbound

(* A public route answered without X-Request-ID *)
C23_PublicWithoutHeader == \E id \in HttpIds :
    /\ httpReq[id].pc = "done" /\ httpReq[id].route \in PublicRoutes
    /\ httpReq[id].header = ""


----------------------------------------------------------------------------
(* SpecCalls: unary and streaming calls reach one provider (TargetName),
   registered beside a provider of another name or beside one that bears
   its own name, while time passes. *)

Twin == [name |-> TargetName, cost |-> 2, models |-> <<"m1", "m2">>]

CallLists == {<<Target, Other>>, <<Target, Twin>>}

(* The router is built at time 0 and its breakers have tripped at once, or
   it is built LateStart before the end and its breakers are new. *)
LateStart == 2 * BreakerInterval

InitCalls ==
    /\ providers \in CallLists
    /\ \/ /\ now = 0
          /\ breakers = [n \in {providers[i].name : i \in 1..Len(providers)} |->
                            FailedCalls(NewCircuitBreaker(0), TripThreshold, 0)]
       \/ /\ now = MaxTime - LateStart
          /\ breakers = NewRouterBreakers(providers, now)
    /\ inflight = EmptyBag
    /\ lastRoute = NoRoute
    /\ execHist = [n \in DOMAIN breakers |-> NoHist]
    /\ InitAuthState
    /\ InitHandlerState
    /\ InitStreamState
    /\ InitHttpState
    /\ InitCallState
    /\ InitLogState

NextCalls ==
    \/ Tick
    \/ ExecuteBegin(1)
    \/ \E c \in BagToSet(inflight), ok \in BOOLEAN : ExecuteEnd(c, ok)
    \/ StreamBegin(1)
    \/ \E c \in BagToSet(streamCalls) : StreamRefused(c)
    \/ \E c \in BagToSet(streamCalls), cancelled \in BOOLEAN : StreamErr(c, cancelled)
    \/ \E c \in BagToSet(streamCalls) : StreamEnd(c)

SpecCalls == InitCalls /\ [][NextCalls]_vars


----------------------------------------------------------------------------
(* Properties of the breakers under unary and streaming calls *)

BreakerOf(i) == breakers[providers[i].name]

(* The breaker of provider i as the next call finds it *)
Found(i) == CurrentState(BreakerOf(i), now)

(* cb.Execute admits a call to provider i now *)
Admits(i) ==
    \/ Found(i).state = StateClosed
    \/ Found(i).state = StateHalfOpen /\ Found(i).Requests < BreakerMaxRequests

(* C24 as stated: every Err chunk of a stream raises the consecutive-failure
   count of the provider's breaker by one (or opens it) and is forwarded,
   and the third error stream in a row leaves the breaker open. *)
C24_AsStated ==
    [][\A c \in BagToSet(streamCalls), x \in BOOLEAN : StreamErr(c, x) =>
          LET n == providers[c.p].name
          IN  /\ \/ breakers'[n].state = StateOpen
                 \/ breakers'[n].ConsecutiveFailures =
                        Found(c.p).ConsecutiveFailures + 1
              /\ execHist'[n].fwd
              /\ execHist'[n].sraw = TripThreshold =>
                     breakers'[n].state = StateOpen]_vars

(* C24 amended: every Err chunk of a stream is handed to the provider's
   breaker, which counts it as one failure when it admits calls (closed, or
   half-open with fewer than 3 requests admitted) and ignores it otherwise;
   the chunk is forwarded unless the request context is cancelled; and the
   third error stream that the closed breaker counts within one interval,
   with no result of a unary call in between, opens it. *)
C24_ErrChunkReported ==
    [][\A c \in BagToSet(streamCalls), x \in BOOLEAN : StreamErr(c, x) =>
          LET n == providers[c.p].name
          IN  /\ Admits(c.p) =>
                    \/ breakers'[n].state = StateOpen
                    \/ /\ breakers'[n].state = StateClosed
                       /\ breakers'[n].ConsecutiveFailures =
                              Found(c.p).ConsecutiveFailures + 1
              /\ Found(c.p).state = StateHalfOpen /\ Admits(c.p) =>
                    breakers'[n].state = StateOpen
              /\ ~Admits(c.p) => breakers'[n] = Found(c.p)
              /\ execHist'[n].fwd = ~x
              /\ (execHist[n].scnt = TripThreshold - 1
                    /\ execHist'[n].scnt = TripThreshold) =>
                     breakers'[n].state = StateOpen /\ breakers[n].state = StateClosed
       ]_vars

(* Three error streams in a row were counted and forwarded, and the breaker
   is open *)
C24_Witness ==
    /\ execHist[TargetName].scnt = TripThreshold
    /\ execHist[TargetName].sraw = TripThreshold
    /\ execHist[TargetName].fwd
    /\ breakers[TargetName].state = StateOpen


(* A call for provider i begins in this step: Router.Execute or
   Router.ExecuteStream *)
CallBegins(i) == ExecuteBegin(i) \/ StreamBegin(i)

(* No provider operation starts in this step *)
NothingInvoked == inflight' = inflight /\ streamCalls' = streamCalls

(* C25: a breaker that opens at time t is set to stay open through t + 30;
   until then every Execute and ExecuteStream call for its provider is
   refused without a provider operation and leaves it open; the first call
   after that finds it half-open and is let through, and Route then selects
   the provider again. *)
C25_OpenThirtySeconds ==
    /\ [][\A n \in DOMAIN breakers :
            (breakers[n].state # StateOpen /\ breakers'[n].state = StateOpen) =>
                breakers'[n].expiry = now' + BreakerTimeout]_vars
    /\ [][\A i \in 1..Len(providers) : CallBegins(i) =>
            LET n == providers[i].name
            IN  IF breakers[n].state = StateOpen /\ now <= breakers[n].expiry
                THEN NothingInvoked /\ breakers'[n] = breakers[n]
                ELSE breakers[n].state = StateOpen =>
                        /\ breakers'[n].state = StateHalfOpen
                        /\ ~NothingInvoked]_vars
    /\ [](\A n \in DOMAIN breakers :
            LET r == Route(breakers, "", now)
            IN  breakers[n].state = StateOpen =>
                   IF now <= breakers[n].expiry
                   THEN r.p = 0 \/ providers[r.p].name # n
                   ELSE r.p # 0 /\ r.breakers[n].state = StateHalfOpen)

(* The breaker opened at time 0 is half-open after 35 seconds, and the call
   that found it so is in progress *)
C25_Witness ==
    /\ breakers[TargetName].state = StateHalfOpen
    /\ breakers[TargetName].Requests = 1
    /\ now = BreakerTimeout + BreakerInterval
    /\ inflight # EmptyBag

(* An open breaker refused a streaming call exactly 30 seconds after it
   opened *)
C25_WitnessStillOpen ==
    /\ breakers[TargetName].state = StateOpen
    /\ now = breakers[TargetName].expiry
    /\ now = BreakerTimeout
    /\ streamCalls = EmptyBag /\ inflight = EmptyBag


(* The calls in bag B that were let through to the provider named n in the
   generation g of its breaker *)
AdmittedIn(B, n, g) ==
    BagCardinality([c \in {d \in BagToSet(B) :
                              providers[d.p].name = n /\ d.before = g} |-> B[c]])

(* The unary and streaming calls in progress that the half-open breaker of
   the provider named n let through *)
Probes(n) ==
    AdmittedIn(inflight, n, breakers[n].generation)
        + AdmittedIn(streamCalls, n, breakers[n].generation)

(* C26: while the breaker of P is half-open, at most 3 calls to P that it
   let through, unary and streaming together, are in progress. *)
C26_AsStated ==
    \A n \in DOMAIN breakers :
        breakers[n].state = StateHalfOpen => Probes(n) <= BreakerMaxRequests

(* Streams alone exceeded the budget: 3 streams opened through the half-open
   breaker are in progress and it has counted no request *)
C26_StreamsUncounted ==
    /\ breakers[TargetName].state = StateHalfOpen
    /\ breakers[TargetName].Requests = 0
    /\ AdmittedIn(streamCalls, TargetName, breakers[TargetName].generation)
           = BreakerMaxRequests


(* A unary call to the provider named n returns an error in this step *)
UnaryFails(n) ==
    \E c \in BagToSet(inflight) : providers[c.p].name = n /\ ExecuteEnd(c, FALSE)

(* A stream of the provider named n reports an error in this step *)
StreamFails(n) ==
    \E c \in BagToSet(streamCalls) :
        /\ providers[c.p].name = n
        /\ StreamRefused(c) \/ \E x \in BOOLEAN : StreamErr(c, x)

(* A unary call to the provider named n returns a response in this step *)
UnarySucceeds(n) ==
    \E c \in BagToSet(inflight) : providers[c.p].name = n /\ ExecuteEnd(c, TRUE)

(* C27: in the half-open state a failure reported to the breaker, by a unary
   call or by a stream, opens it for 30 seconds, and it becomes closed only
   by the third consecutive success. *)
C27_AsStated ==
    [][\A n \in DOMAIN breakers : breakers[n].state = StateHalfOpen =>
          /\ UnaryFails(n) \/ StreamFails(n) =>
                /\ breakers'[n].state = StateOpen
                /\ breakers'[n].expiry = now' + BreakerTimeout
          /\ breakers'[n].state = StateClosed =>
                /\ breakers[n].ConsecutiveSuccesses = BreakerMaxRequests - 1
                /\ UnarySucceeds(n)]_vars

(* What holds of unary calls alone *)
C27_UnaryOnly ==
    [][\A n \in DOMAIN breakers : breakers[n].state = StateHalfOpen =>
          /\ UnaryFails(n) =>
                /\ breakers'[n].state = StateOpen
                /\ breakers'[n].expiry = now' + BreakerTimeout
          /\ breakers'[n].state = StateClosed =>
                /\ breakers[n].ConsecutiveSuccesses = BreakerMaxRequests - 1
                /\ UnarySucceeds(n)]_vars


(* The error Router.Execute returns for provider i before p.Complete, if any *)
Synthesised(i) == BeforeRequest(BreakerOf(i), now).err

(* C28 as stated: a Router.Execute call either attempts provider.Complete or
   returns the breaker-open error, and the latter only when the breaker is
   open. *)
C28_AsStated ==
    [][\A i \in 1..Len(providers) : ExecuteBegin(i) =>
          /\ Synthesised(i) \in {NoErr, ErrOpenState}
          /\ NothingInvoked => Found(i).state = StateOpen]_vars

(* C28 amended: a Router.Execute call either attempts provider.Complete,
   whose result it returns, or returns an error of the breaker with
   provider.Complete not attempted: the breaker-open error exactly when the
   breaker is open, the too-many-requests error exactly when it is half-open
   and has let through 3 requests since it became half-open; no other error
   is synthesised. *)
C28_TwoBreakerErrors ==
    [][\A i \in 1..Len(providers) : ExecuteBegin(i) =>
          /\ Synthesised(i) \in {NoErr, ErrOpenState, ErrTooManyRequests}
          /\ Synthesised(i) = NoErr <=> inflight' # inflight
          /\ Synthesised(i) = ErrOpenState <=> Found(i).state = StateOpen
          /\ Synthesised(i) = ErrTooManyRequests <=>
                /\ Found(i).state = StateHalfOpen
                /\ Found(i).Requests >= BreakerMaxRequests
          /\ Synthesised(i) # NoErr => breakers'[providers[i].name] = Found(i)]_vars

(* The half-open breaker has let 3 calls through, two of which succeeded and
   one is in progress, and has refused a fourth *)
C28_Witness ==
    /\ breakers[TargetName].state = StateHalfOpen
    /\ breakers[TargetName].Requests = BreakerMaxRequests
    /\ breakers[TargetName].ConsecutiveSuccesses = BreakerMaxRequests - 1
    /\ inflight # EmptyBag
    /\ execHist[TargetName].raw = 1

(* C29: a call that finds a closed breaker past the end of its 5-second
   interval starts a new interval with cleared counters, and the closed
   breaker's consecutive failures are those counted in its current interval
   only, fewer than 3: failures on both sides of an interval boundary do
   not add up. *)
C29_IntervalClearsCounts ==
    /\ [][\A n \in DOMAIN breakers :
            (/\ breakers[n].state = StateClosed
             /\ breakers[n].expiry < now
             /\ breakers'[n] # breakers[n]) =>
                /\ breakers'[n].state = StateClosed
                /\ breakers'[n].generation = breakers[n].generation + 1
                /\ breakers'[n].expiry = now + BreakerInterval
                /\ breakers'[n].ConsecutiveFailures = 0
                /\ breakers'[n].ConsecutiveSuccesses = 0
                /\ breakers'[n].Requests <= 1]_vars
    /\ [](\A n \in DOMAIN breakers : breakers[n].state = StateClosed =>
            /\ breakers[n].ConsecutiveFailures < TripThreshold
            /\ breakers[n].ConsecutiveFailures =
                   IF execHist[n].gen = breakers[n].generation
                   THEN execHist[n].cnt ELSE 0)

(* Two failures, an interval boundary and a third failure: three calls in a
   row have failed and the breaker is closed with one failure counted *)
C29_Witness ==
    /\ execHist[TargetName].raw = TripThreshold
    /\ execHist[TargetName].cnt = 1
    /\ execHist[TargetName].gen = breakers[TargetName].generation
    /\ breakers[TargetName].state = StateClosed
    /\ breakers[TargetName].ConsecutiveFailures = 1


(* A step of a call for provider i: Router.Execute or Router.ExecuteStream
   begins, or a call begun for i returns or reports *)
CallStep(i) ==
    \/ CallBegins(i)
    \/ \E c \in BagToSet(inflight), ok \in BOOLEAN : c.p = i /\ ExecuteEnd(c, ok)
    \/ \E c \in BagToSet(streamCalls) :
          /\ c.p = i
          /\ \/ StreamRefused(c)
             \/ \E x \in BOOLEAN : StreamErr(c, x)
             \/ StreamEnd(c)

(* C30 as stated: a call for provider P leaves the breaker of every other
   registered provider as it was, whatever the list given to NewRouter. *)
C30_AsStated ==
    [][\A i \in 1..Len(providers) : CallStep(i) =>
          \A j \in 1..Len(providers) :
              j # i => breakers'[providers[j].name] = breakers[providers[j].name]]_vars

(* C30 amended: breakers are kept per provider name.  A call for provider P,
   and any failure it reports, changes only the breaker registered under
   P's name and leaves the breaker of every provider of another name as it
   was; providers that bear the same name share one breaker. *)
C30_PerNameBreakers ==
    /\ [][\A i \in 1..Len(providers) : CallStep(i) =>
            \A n \in DOMAIN breakers :
                n # providers[i].name => breakers'[n] = breakers[n]]_vars
    /\ [](DOMAIN breakers = {providers[i].name : i \in 1..Len(providers)})

(* Calls for the first provider have opened its breaker while the breaker
   of the second, of another name, is closed and has counted nothing *)
C30_Witness ==
    /\ providers[2].name # providers[1].name
    /\ breakers[providers[1].name].state = StateOpen
    /\ breakers[providers[2].name] = NewCircuitBreaker(MaxTime - LateStart)
    /\ now > MaxTime - LateStart

(* Two providers of one name: the calls for the first have opened the
   breaker of both *)
C30_WitnessSameName ==
    /\ providers[2].name = providers[1].name
    /\ execHist[providers[1].name].cnt = TripThreshold
    /\ breakers[providers[2].name].state = StateOpen


----------------------------------------------------------------------------
(* Properties of the order of a request's stages *)

(* C31: billing.LogUsage runs for a request only after the response of that
   request has been written. *)
C31_AsStated ==
    \A id \in HandlerIds :
        hreq[id].logCalls > 0 => hreq[id].pc = "done" /\ hreq[id].written = 1

(* The usage record of a unary request was stored while its response was
   still to be written *)
C31_LoggedBeforeResponse ==
    \E id \in HandlerIds :
        /\ hreq[id].ep = "complete" /\ hreq[id].pc = "responding"
        /\ hreq[id].written = 0 /\ \E l \in usageLogs : l.req = id


(* The limiter admitted request r *)
Admitted(r) ==
    r.allowN.called /\ Allow(r.allowN.res).err = NoErr /\ Allow(r.allowN.res).allowed

(* C32: the stages of a request depend on each other in the order
   authenticate, decode, admit, route, execute, usage record: the limiter is
   asked only for a request with a tenant and a body that decodes, Route is
   called only for an admitted request, a provider operation or a breaker
   check happens only for a request Route gave a provider, and the usage
   record is started only when execute has returned. *)
C32_StagesInOrder ==
    \A id \in HandlerIds :
        LET r == hreq[id]
        IN  r.ep \in Endpoints =>
              /\ r.allowN.called => r.tenant # "" /\ BodyDecodes(r.read)
              /\ r.routed => Admitted(r)
              /\ r.selected # 0 => r.routed
              /\ (r.execErr # "none" \/ r.calls # <<>> \/ r.contacted) =>
                     r.routed /\ r.selected # 0
              /\ (r.logPending \/ r.logCalls > 0) =>
                     r.execErr = NoErr /\ r.contacted /\ r.calls = <<r.selected>>

(* One request was denied by the limiter and Route was not called for it;
   the other got as far as its usage record *)
C32_Witness ==
    \E a, b \in HandlerIds :
        /\ hreq[a].status = 429 /\ hreq[a].allowN.called /\ ~hreq[a].routed
        /\ hreq[b].logCalls = 1 /\ hreq[b].calls # <<>>

(* A request was refused by Route after the limiter admitted it, and no
   provider was invoked for it *)
C32_WitnessNoProvider ==
    \E a \in HandlerIds :
        /\ hreq[a].status = 503 /\ Admitted(hreq[a]) /\ hreq[a].calls = <<>>
        /\ hreq[a].execErr = "none"

(* An undecodable body was answered 400 and the limiter was not asked *)
C32_WitnessUndecodable ==
    \E id \in HandlerIds :
        /\ hreq[id].status = 400 /\ hreq[id].tenant # ""
        /\ ~BodyDecodes(hreq[id].read) /\ ~hreq[id].allowN.called

(* ---------------------------------------------------------------------- *)
(* C33: the SSE body                                                       *)

(* The events as the specification writes them *)
StatedData(text) ==
    <<"data: {\"choices\":[{\"delta\":{\"content\":\"">> \o text
        \o <<"\"},\"index\":0}]}", "\n", "\n">>
StatedDone == <<"data: [DONE]", "\n", "\n">>
StatedError(m) == <<"event: error", "\n", "data: {\"error\":\"">> \o m \o <<"\"}", "\n", "\n">>
StatedEvent(chunk) ==
    IF chunk.Err THEN StatedError(ErrText)
    ELSE IF chunk.Done THEN StatedDone
    ELSE StatedData(chunk.Delta)

(* The error event as the handler writes it: a space follows the colon *)
WrittenError(m) == <<"event: error", "\n", "data: {\"error\": \"">> \o m \o <<"\"}", "\n", "\n">>
WrittenEvent(chunk) == IF chunk.Err THEN WrittenError(ErrText) ELSE StatedEvent(chunk)

TerminalEvent(ev) == ev = StatedDone \/ ev = WrittenError(ErrText)

(* C33 as stated: the body is the stated event of every chunk the adapter
   emitted, the error event being data: {"error":"<m>"} without a space. *)
C33_AsStated ==
    \A k \in 1..Len(consumer.body) : consumer.body[k] = StatedEvent(producer.sent[k])

(* C33: the body written by HandleCompleteStream holds one event per chunk
   received, in the order the adapter emitted them: the data event of the
   delta, data: [DONE] for Done, and for an error event: error with
   data: {"error": "<m>"} (a space after the colon).  Only the last event
   is [DONE] or the error event, and once the handler has left its loop on
   a stream the client did not cancel the body is the whole of what the
   adapter emitted and ends with one of the two. *)
C33_SSEBody ==
    /\ Len(consumer.body) = Len(consumer.got)
    /\ Len(consumer.body) <= Len(producer.sent)
    /\ \A k \in 1..Len(consumer.body) : consumer.body[k] = WrittenEvent(producer.sent[k])
    /\ \A k \in 1..Len(consumer.body) : TerminalEvent(consumer.body[k]) => k = Len(consumer.body)
    /\ (consumer.pc \in {"after", "returned"} /\ producer.pc # "idle" /\ ~ctxDone.client) =>
           /\ Len(consumer.body) = Len(producer.sent)
           /\ consumer.body # <<>> /\ TerminalEvent(consumer.body[Len(consumer.body)])

(* Two deltas then [DONE], wholly written *)
C33_Witness ==
    /\ consumer.pc = "returned" /\ ~ctxDone.client
    /\ Len(consumer.body) = 3
    /\ consumer.body[1] = StatedData(producer.sent[1].Delta)
    /\ consumer.body[3] = StatedDone

(* A stream ending in an error event after a delta *)
C33_WitnessError ==
    /\ consumer.pc = "returned" /\ Len(consumer.body) = 2
    /\ consumer.body[2] = WrittenError(ErrText)

(* ---------------------------------------------------------------------- *)
(* C34: latency_ms                                                         *)

(* C34 as stated: for every successful unary call the latency_ms of the
   response, which is the one written to the usage log, is the wall-clock
   time the provider call took. *)
C34_AsStated ==
    \A id \in HandlerIds :
        (hreq[id].ep = "complete" /\ hreq[id].upstream = "ok") =>
            /\ hreq[id].log.latencyMs = hreq[id].elapsed
            /\ \A row \in usageLogs : row.req = id => row.latencyMs = hreq[id].elapsed

(* ---------------------------------------------------------------------- *)
(* C35: HandleUsage                                                        *)

BadDate(v) == v # "" /\ ~ParsesRFC3339(v)

(* C35: for an authenticated request HandleUsage answers 400 without a
   query of the billing store when from or to is present and is not
   RFC3339; otherwise it queries the store with the tenant id of the
   context only, and answers 500 when one of the two queries fails, else
   200 with total_requests the number of logs the store returned and
   total_cost_usd the total the store returned. *)
C35_UsageAnswers ==
    [][\A id \in HandlerIds :
          (/\ hreq[id].pc = "idle" /\ hreq'[id].ep = "usage"
           /\ usageLogs' = usageLogs
           /\ \A j \in HandlerIds \ {id} : hreq'[j] = hreq[j]) =>
              \A f, t \in QueryParams, e \in StoreErrors :
                  (HandleUsage(id, hreq'[id].ctx, f, t, e)
                     /\ GetTenantID(hreq'[id].ctx) # "") =>
                      LET r == hreq'[id]
                          ctx == r.ctx
                          mine == {row \in usageLogs : row.tenant = GetTenantID(ctx)}
                      IN  IF BadDate(f) \/ BadDate(t)
                          THEN r.status = 400 /\ r.queries = <<>>
                          ELSE /\ r.queries # <<>>
                               /\ \A k \in 1..Len(r.queries) :
                                      r.queries[k].tenant = GetTenantID(ctx)
                               /\ r.stored \subseteq mine
                               /\ IF e # "none" THEN r.status = 500
                                  ELSE /\ r.status = 200
                                       /\ Len(r.queries) = 2
                                       /\ JsonField(r.body, "total_requests")
                                              = Cardinality(r.stored)
                                       /\ JsonField(r.body, "total_cost_usd")
                                              = r.storedCost]_vars

(* A tenant is told of its one logged request *)
C35_Witness ==
    \E id \in HandlerIds :
        /\ hreq[id].ep = "usage" /\ hreq[id].status = 200
        /\ Cardinality(hreq[id].stored) = 1
        /\ JsonField(hreq[id].body, "total_requests") = 1
        /\ JsonField(hreq[id].body, "total_cost_usd") > 0

(* A tenant is told nothing of the other tenant's request *)
C35_WitnessOtherTenant ==
    \E id \in HandlerIds :
        /\ hreq[id].ep = "usage" /\ hreq[id].status = 200 /\ hreq[id].stored = {}
        /\ \E row \in usageLogs : row.tenant # hreq[id].tenant

(* A request with a bad date is answered 400 *)
C35_WitnessBadDate ==
    \E id \in HandlerIds :
        /\ hreq[id].ep = "usage" /\ hreq[id].status = 400 /\ hreq[id].queries = <<>>
        /\ usageLogs # {}

(* ---------------------------------------------------------------------- *)
(* C36: the raw secret                                                     *)

(* The raw secrets of the keys *)
RawSecrets == Secrets \cup {TestAPIKey}

(* C36 as stated: no raw secret is written to the cache, to the key store or
   to the process log; the keys appear there as their hash only. *)
C36_AsStated ==
    /\ \A line \in procLog : line[2] \notin RawSecrets
    /\ \A row \in apiKeys :
           /\ row.id \notin RawSecrets /\ row.tenant \notin RawSecrets
           /\ row.keyHash[1] = "sha256"
    /\ \A k \in DOMAIN cache :
           /\ k[2][1] = "sha256"
           /\ cache[k].present =>
                  LET a == UnmarshalBinary(cache[k].val)
                  IN  /\ a.id \notin RawSecrets /\ a.tenant \notin RawSecrets
                      /\ a.keyHash[1] = "sha256"

(* ---------------------------------------------------------------------- *)
(* C37: successful streams and the breaker                                 *)

(* The steps of a stream that ends without Err: its admission by
   ExecuteStream and its end *)
SuccessfulStreamStep ==
    \/ StreamBegin(1) /\ streamCalls' # streamCalls
    \/ \E c \in BagToSet(streamCalls) : StreamEnd(c)

AnyStreamStep ==
    \/ StreamBegin(1)
    \/ \E c \in BagToSet(streamCalls) : StreamRefused(c) \/ StreamEnd(c)
    \/ \E c \in BagToSet(streamCalls), x \in BOOLEAN : StreamErr(c, x)

(* C37 as stated: ExecuteStream leaves the state and the counters of the
   breaker unchanged for a stream that ends without Err. *)
C37_AsStated == [][SuccessfulStreamStep => breakers' = breakers]_vars

(* C37: a stream that ends without Err reports nothing to the breaker:
   ExecuteStream leaves it as the passing of time alone has made it (its
   cb.State() applies the interval rollover or the passage from open to
   half-open that is due), so that the consecutive-failure count is not
   reset, no success is counted in half-open, and no step of a stream moves
   a half-open breaker to closed. *)
C37_SuccessUnreported ==
    /\ [][SuccessfulStreamStep =>
             \A n \in DOMAIN breakers :
                 /\ breakers'[n] \in {breakers[n], CurrentState(breakers[n], now)}
                 /\ CurrentState(breakers'[n], now) = CurrentState(breakers[n], now)]_vars
    /\ [][AnyStreamStep =>
             \A n \in DOMAIN breakers :
                 CurrentState(breakers[n], now).state = StateHalfOpen =>
                     /\ breakers'[n].state # StateClosed
                     /\ breakers'[n].ConsecutiveSuccesses
                            <= CurrentState(breakers[n], now).ConsecutiveSuccesses]_vars

(* A stream ended without Err after a stream error had been counted, and
   the failures counted are still there *)
C37_Witness ==
    /\ execHist[TargetName].scnt = 2 /\ execHist[TargetName].sraw = 0
    /\ breakers[TargetName].state = StateClosed
    /\ breakers[TargetName].ConsecutiveFailures = 2
    /\ BagCardinality(streamCalls) = 0

(* A stream admitted by a half-open breaker, which counts no request *)
C37_WitnessHalfOpen ==
    /\ breakers[TargetName].state = StateHalfOpen
    /\ breakers[TargetName].Requests = 0
    /\ \E c \in BagToSet(streamCalls) : c.before = breakers[TargetName].generation

(* ---------------------------------------------------------------------- *)
(* C38: client cancellation and the breaker                                *)

(* An upstream that answers 200 and whose body ends at EOF without a line
   the adapter turns into an Err chunk: only a cancelled context can make
   the adapter emit one *)
HealthyUpstream ==
    /\ upstream.http = "status_200" /\ upstream.end = "eof"
    /\ \A k \in 1..Len(upstream.lines) :
           ~OnLine(upstream.adapter, upstream.lines[k], k).chunk.Err

(* C38 as stated: the cancellation of a request by its client is never
   recorded as a failure by the breaker of the provider. *)
C38_AsStated ==
    HealthyUpstream => breakers[StreamProvider].ConsecutiveFailures = 0

(* ---------------------------------------------------------------------- *)
(* C39: the debit of the tenant's bucket                                   *)

(* The one call of the limiter a completion request with tenant and
   decodable body makes: AllowN on the bucket of its tenant, for the
   estimated tokens *)
OwnDebit(r) ==
    <<<<LimiterKey(GetTenantID(r.ctx)), EstimatedTokens(DecodeRequest(r.read).maxTokens)>>>>

(* C39: a completion request whose context carries a tenant and whose body
   decodes calls the limiter once, on the bucket ratelimit:tenant:<id> of
   its own tenant and before it is routed; nothing is given back and no
   second call is made, whatever becomes of the request (429, 503, 502,
   200); a request without tenant or with an undecodable body calls the
   limiter on no bucket. *)
C39_DebitedOnce ==
    \A id \in HandlerIds :
        LET r == hreq[id]
        IN  r.pc # "idle" =>
                /\ IF r.ep \in Endpoints /\ GetTenantID(r.ctx) # "" /\ DecodeRequest(r.read).decoded
                   THEN r.debits = OwnDebit(r)
                   ELSE r.debits = <<>>
                /\ (r.routed \/ r.contacted) => Len(r.debits) = 1
                /\ \A k \in 1..Len(r.debits) :
                       r.debits[k][1] = LimiterKey(r.tenant) /\ r.debits[k][2] > 0

(* Requests of two tenants, each debited on its own bucket, one of them
   answered 502 *)
C39_Witness ==
    /\ hreq[1].tenant = "t1" /\ hreq[2].tenant = "t2"
    /\ hreq[1].status = 502 /\ hreq[1].contacted
    /\ hreq[1].debits = <<<<LimiterKey("t1"), 50>>>>
    /\ hreq[2].debits = <<<<LimiterKey("t2"), DefaultEstimatedTokens>>>>
    /\ hreq[2].pc = "done"

(* A request answered 503 keeps its debit *)
C39_WitnessNoProvider ==
    \E id \in HandlerIds :
        hreq[id].status = 503 /\ hreq[id].routed /\ Len(hreq[id].debits) = 1

----------------------------------------------------------------------------
(* The event loop of HandleCompleteStream applied to one delta: the channel
   holds a chunk whose Delta is a text over the letter n, the double quote,
   the newline and the backslash, and is closed behind it. *)

DeltaAlphabet == {"n", "\"", "\n", "\\"}

Deltas == UNION {[1..k -> DeltaAlphabet] : k \in 0..MaxDeltaLen}

InitEscape ==
    /\ now = 0
    /\ providers = <<Target>>
    /\ breakers = [n \in {TargetName} |-> NewCircuitBreaker(0)]
    /\ inflight = EmptyBag
    /\ lastRoute = NoRoute
    /\ execHist = [n \in DOMAIN breakers |-> NoHist]
    /\ InitAuthState
    /\ InitHandlerState
    /\ upstream = NoUpstream
    /\ producer = [IdleProducer EXCEPT !.pc = "closed"]
    /\ forwarder = [IdleForwarder EXCEPT !.pc = "done"]
    /\ \E d \in Deltas :
           wrappedCh = [buf |-> <<[Delta |-> d, Done |-> FALSE, Err |-> FALSE]>>,
                        closed |-> TRUE]
    /\ consumer = [IdleConsumer EXCEPT !.pc = "recv"]
    /\ ctxDone = LiveCtx
    /\ InitHttpState
    /\ InitCallState
    /\ InitLogState

NextEscape == HandlerRecv \/ HandlerReturn

SpecEscape == InitEscape /\ [][NextEscape]_vars

(* ---------------------------------------------------------------------- *)
(* C40: escaping                                                           *)

(* encoding/json's decoding of the content of a JSON string: the text
   between the two quotes.  A quote ends the string (what follows makes the
   object invalid), a control character is not allowed, and a backslash
   starts an escape *)
JsonEscapes == {"\"", "\\", "/", "b", "f", "n", "r", "t"}

JsonUnescape(c) ==
    CASE c = "n" -> "\n"
      [] c = "t" -> "\t"
      [] c = "r" -> "\r"
      [] c = "b" -> "<backspace>"
      [] c = "f" -> "<formfeed>"
      [] OTHER -> c

RECURSIVE JsonStringDecode(_)
JsonStringDecode(s) ==
    IF s = <<>> THEN [valid |-> TRUE, val |-> <<>>]
    ELSE IF Head(s) = "\"" \/ Head(s) = "\n" THEN [valid |-> FALSE, val |-> <<>>]
    ELSE IF Head(s) = "\\"
    THEN IF Len(s) < 2 \/ s[2] \notin JsonEscapes THEN [valid |-> FALSE, val |-> <<>>]
         ELSE LET rest == JsonStringDecode(SubSeq(s, 3, Len(s)))
              IN  [valid |-> rest.valid, val |-> <<JsonUnescape(s[2])>> \o rest.val]
    ELSE LET rest == JsonStringDecode(Tail(s))
         IN  [valid |-> rest.valid, val |-> <<Head(s)>> \o rest.val]

(* The text an event carries between the quotes of "content" *)
ContentOf(ev) == SubSeq(ev, 2, Len(ev) - 3)

(* The event is one line, ended by the empty line *)
SingleDataLine(ev) == \A k \in 1..(Len(ev) - 2) : ev[k] # "\n"

(* C40 as stated: the event written for a delta is a single data: line
   whose payload is valid JSON and whose content decodes to the delta. *)
C40_AsStated ==
    \A k \in 1..Len(consumer.body) :
        /\ SingleDataLine(consumer.body[k])
        /\ JsonStringDecode(ContentOf(consumer.body[k]))
               = [valid |-> TRUE, val |-> consumer.got[k].Delta]

(* Quotes and newlines do come back *)
C40_WitnessRoundTrip ==
    /\ Len(consumer.body) = 1
    /\ consumer.got[1].Delta = <<"\"", "\n", "n">>
    /\ JsonStringDecode(ContentOf(consumer.body[1]))
           = [valid |-> TRUE, val |-> consumer.got[1].Delta]

====
